---- MODULE Spec2Model ----
(***************************************************************************)
(* Incremental Chroma index builder (scripts/build_chroma.py):             *)
(* S3 runbooks prefix -> diff against manifest -> local Chroma store ->    *)
(* S3 vectors prefix + manifest.                                           *)
(*                                                                         *)
(* Abstractions                                                            *)
(*  - A PDF's content is identified by its ETag; the text it yields is     *)
(*    represented by its length, chunk j of a text by (etag, j).           *)
(*  - sha1 in stable_chunk_id is injective: the id is the pair hashed.     *)
(*  - A persistent Chroma directory is a set of files; every store file    *)
(*    holds the record set it was last persisted from, and the records a   *)
(*    client sees are those of chroma.sqlite3.                             *)
(*  - manifest.json lives inside the vectors prefix (the default           *)
(*    MANIFEST_KEY), so prefix download and directory upload carry it.     *)
(*  - The runbooks prefix is quiescent while a run is in progress.         *)
(***************************************************************************)
EXTENDS Integers, Sequences, FiniteSets, TLC

\* ------------------------------------------------------------------ bounds
\* LastModified values are 1..MaxTime
MaxTime == 2
\* --max-pdfs ranges over 0..MaxPdfsArg
MaxPdfsArg == 1
\* number of puts and deletes in the runbooks prefix
MaxEdits == 3
\* number of runs of main()
MaxRuns == 2

\* ------------------------------------------------- configuration (env vars)
CHUNK_SIZE == 3
CHUNK_OVERLAP == 1
EMBED_BATCH_SIZE == 1
\* EMBED_MODEL of the builder; a serving process has its own
EMBED_MODEL == "m1"
Models == {"m1", "m2"}

\* ---------------------------------------------------------------- universe
\* sorted() order of the object keys
KeyOrder == <<"d1.pdf", "d2.pdf", "d3.pdf", "d4.pdf">>
\* keys of the runbooks prefix in the run model
Keys == {"d1.pdf", "d2.pdf"}
\* document contents: ETag, ContentLength, length of the extracted text
Contents ==
  { [etag |-> "e1", size |-> 10, textlen |-> 4],
    [etag |-> "e2", size |-> 10, textlen |-> 2],
    [etag |-> "e3", size |-> 20, textlen |-> 0] }
Times == 1..MaxTime

SQLITE == "chroma.sqlite3"
StoreFiles == {"chroma.sqlite3", "data_level0.bin"}
MANIFEST_KEY == "manifest.json"
VecFiles == StoreFiles \cup {MANIFEST_KEY}

\* ----------------------------------------------------------- dict helpers
EmptyMap == [x \in {} |-> 0]
Put(m, k, v) == [x \in (DOMAIN m) \cup {k} |-> IF x = k THEN v ELSE m[x]]
Remove(m, k) == [x \in (DOMAIN m) \ {k} |-> m[x]]
Range(s) == {s[i] : i \in 1..Len(s)}
Min(a, b) == IF a < b THEN a ELSE b
Max(a, b) == IF a > b THEN a ELSE b

\* sorted(S) for a set of keys
Sorted(S) == SelectSeq(KeyOrder, LAMBDA k : k \in S)

\* ------------------------------------------------------------ pure helpers
\* chunk_text: the start offsets of the windows, i = 0, step, 2*step, ...
chunk_step == Max(1, CHUNK_SIZE - CHUNK_OVERLAP)
RECURSIVE chunk_loop(_, _)
chunk_loop(i, textlen) ==
  IF i < textlen THEN 1 + chunk_loop(i + chunk_step, textlen) ELSE 0
\* chunk_text on a stripped text of the given length: the number of windows
chunk_text(textlen) == IF textlen = 0 THEN 0 ELSE chunk_loop(0, textlen)

\* an id that leaves the chunk index out
stable_chunk_id_key(s3_key, chunk_index) == <<s3_key, 0>>
\* stable_chunk_id: sha1 of "<key>::chunk::<index>"
stable_chunk_id(s3_key, chunk_index) == <<s3_key, chunk_index>>

\* s3_head_pdf_meta on an object of the runbooks prefix
s3_head_pdf_meta(obj, key) ==
  [key |-> key, etag |-> obj.content.etag, size |-> obj.content.size,
   last_modified |-> obj.lm]

\* s3_list_pdfs followed by the --max-pdfs slice
s3_list_pdfs(src) == Sorted(DOMAIN src)
cap_pdfs(pdf_keys, max_pdfs) ==
  IF max_pdfs > 0 THEN SubSeq(pdf_keys, 1, Min(max_pdfs, Len(pdf_keys)))
  ELSE pdf_keys

\* build_current_state: one HEAD per listed key
build_current_state(src, pdf_keys) ==
  [k \in Range(pdf_keys) |-> s3_head_pdf_meta(src[k], k)]

\* the ETag test with == for !=
is_changed_eq(p, c) ==
  IF p.etag # "" /\ c.etag # "" /\ p.etag = c.etag
  THEN TRUE
  ELSE (p.size # c.size) \/ (p.last_modified # c.last_modified)

\* the per-key test of compute_diff (etag "" is falsy)
is_changed(p, c) ==
  IF p.etag # "" /\ c.etag # "" /\ p.etag # c.etag
  THEN TRUE
  ELSE (p.size # c.size) \/ (p.last_modified # c.last_modified)

\* compute_diff with the two set differences exchanged
compute_diff_swapped(previous, current) ==
  LET prev_keys == DOMAIN previous
      cur_keys == DOMAIN current
  IN [added |-> Sorted(prev_keys \ cur_keys),
      changed |-> Sorted({k \in cur_keys \cap prev_keys :
                            is_changed(previous[k], current[k])}),
      removed |-> Sorted(cur_keys \ prev_keys)]

compute_diff(previous, current) ==
  LET prev_keys == DOMAIN previous
      cur_keys == DOMAIN current
  IN [added |-> Sorted(cur_keys \ prev_keys),
      changed |-> Sorted({k \in cur_keys \cap prev_keys :
                            is_changed(previous[k], current[k])}),
      removed |-> Sorted(prev_keys \ cur_keys)]

\* ------------------------------------------------------- Chroma collection
\* the record upserted for chunk j of the document at s3_key
\* (doc: the chunk text, model: the model that produced its vector)
ChunkRecord(s3_key, etag, j) ==
  [id |-> stable_chunk_id(s3_key, j), s3_key |-> s3_key, chunk |-> j,
   doc |-> etag, model |-> EMBED_MODEL]
\* a delete that matches the first chunk of the document only
chroma_delete_first(col, s3_key) ==
  {r \in col : ~(r.s3_key = s3_key /\ r.chunk = 0)}
\* collection.delete(where={"s3_key": s3_key})
chroma_delete(col, s3_key) == {r \in col : r.s3_key # s3_key}
\* collection.upsert: insert-or-replace by id
chroma_upsert(col, recs) ==
  {r \in col : r.id \notin {n.id : n \in recs}} \cup recs
\* chroma_delete_pdf that only prints
chroma_delete_pdf_skip(col, s3_key, dry_run) == col
\* chroma_delete_pdf
chroma_delete_pdf(col, s3_key, dry_run) ==
  IF dry_run THEN col ELSE chroma_delete(col, s3_key)

\* a directory: exists flag + files present
NoDir == [exists |-> FALSE, files |-> EmptyMap]
\* the records a client opened on the directory sees
CollectionOf(dir) ==
  IF SQLITE \in DOMAIN dir.files THEN dir.files[SQLITE] ELSE {}
\* persist a mutation of the collection: every store file is rewritten
Persist(dir, col) ==
  [exists |-> TRUE,
   files |-> [f \in (DOMAIN dir.files) \cup StoreFiles |->
                IF f \in StoreFiles THEN col ELSE dir.files[f]]]
\* open_chroma: makedirs + PersistentClient + get_or_create_collection
open_chroma(dir) ==
  [exists |-> TRUE,
   files |-> IF SQLITE \in DOMAIN dir.files THEN dir.files
             ELSE Put(dir.files, SQLITE, {})]
\* shutil.rmtree + os.makedirs
cleared_dir == [exists |-> TRUE, files |-> EmptyMap]

\* ------------------------------------------------------------------- state
VARIABLES
  source,          \* runbooks prefix: key -> [content, lm]
  s3vec,           \* vectors prefix: file -> content (store files, manifest)
  lDir,            \* LOCAL_CHROMA_DIR
  pc,              \* position of main()
  args,            \* [dry_run, rebuild, max_pdfs]
  previous_files,  \* manifest.get("files")
  pdf_keys,
  current_files,
  added, changed, removed,
  idx,             \* loop position in removed / to_process
  chunks,          \* number of chunks of the document being indexed
  start,           \* batch start in chroma_index_pdf
  todo,            \* files still to transfer in download / upload
  failedAt,        \* pc at which the run raised
  embed_calls,     \* embeddings.create calls issued for the current batch
  manifest_gets,   \* GETs of the manifest object issued by the run
  manifest_puts,   \* PUTs of the manifest object issued by the run
  edits,           \* number of puts and deletes so far
  runs,            \* number of runs started so far
  pre,             \* history: durable and local state at run start
  last,            \* history: the previous run, while the source is as it left it
  \* ---- a serving process (lambda/app.py)
  s3_bucket,       \* S3_BUCKET is configured
  embed_model,     \* EMBED_MODEL of the serving process
  chroma_collection, \* _chroma_collection: [loaded, records, download]
  tmpDir,          \* CHROMA_LOCAL_DIR of the serving process
  spc,             \* position of lambda_handler
  event,           \* the request being handled
  top_k,           \* top_k after validation
  ctx,             \* the contexts _retrieve returned
  stodo,           \* keys _download_prefix still has to download
  llm_out,         \* what responses.create returned: "none", "text", "empty"
  raisedAt,        \* position at which an exception was raised
  resp,            \* the response returned
  nreq,            \* number of requests received so far
  prev_resp,       \* history: status and raise position of the previous response
  downloads,       \* history: completed _download_prefix calls of the process
  \* ---- one call of chunk_text
  ct_args,         \* [text, chunk_size, overlap]
  ct_ret,          \* the list returned
  ct_pc,           \* "call" before, "ret" after
  \* ---- the answer step of one question (lambda/app.py)
  ask_ctx,         \* the contexts _retrieve returned, in rank order
  context_block,   \* _answer: the context block of the prompt
  ask_sources,     \* the "sources" member of the response
  ask_pc,          \* "call" before, "ret" after
  \* ---- the batch loop of chroma_index_pdf for one document
  b_chunks,        \* chunks: the texts chunk_text returned
  b_size,          \* EMBED_BATCH_SIZE
  b_start,         \* start, the loop variable
  b_vectors,       \* vectors of the batch embeddings.create returned
  b_col,           \* the records of the collection
  b_calls,         \* history: the slices embeddings.create was called with
  b_pc,            \* "loop", "embedded", "done", "failed"
  \* ---- one call of embed_with_retry (rag_ingest_to_chroma.py)
  max_retries,
  attempt,         \* the loop variable
  delay,           \* seconds the next sleep lasts
  exc,             \* the exception the last failed call raised
  slept,           \* history: the durations of the sleeps so far
  ewr_calls,       \* history: the number of embeddings.create calls so far
  ewr_pc,          \* "try", "returned", "raised"
  \* ---- two processes running main() against one bucket
  serialized,      \* the caller starts a run only when no other is running
  rpc,             \* process -> position of main()
  rprev,           \* process -> previous_files
  rcur,            \* process -> current_files
  rdir,            \* process -> its LOCAL_CHROMA_DIR
  rtodo,           \* process -> files still to download / upload
  rruns,           \* number of runs started so far
  writer,          \* history: file of the vectors prefix -> last process to put it
  overlapped       \* history: two runs had downloaded before either uploaded

runvars == <<previous_files, pdf_keys, current_files, added, changed, removed,
             idx, chunks, start, todo, failedAt, embed_calls, manifest_gets,
             manifest_puts>>
buildvars == <<source, s3vec, lDir, pc, args, previous_files, pdf_keys,
               current_files, added, changed, removed, idx, chunks, start,
               todo, failedAt, embed_calls, manifest_gets, manifest_puts,
               edits, runs, pre, last>>
servevars == <<s3_bucket, embed_model, chroma_collection, tmpDir, spc, event,
               top_k, ctx, stodo, llm_out, raisedAt, resp, nreq, prev_resp,
               downloads>>
chunkvars == <<ct_args, ct_ret, ct_pc>>
answervars == <<ask_ctx, context_block, ask_sources, ask_pc>>
\* the state of the functions that are specified on their own
batchvars == <<b_chunks, b_size, b_start, b_vectors, b_col, b_calls, b_pc>>
retryvars == <<max_retries, attempt, delay, exc, slept, ewr_calls, ewr_pc>>
racevars == <<serialized, rpc, rprev, rcur, rdir, rtodo, rruns, writer,
              overlapped>>
unitvars == <<answervars, batchvars, retryvars, racevars>>
vars == <<buildvars, servevars, chunkvars, unitvars>>

FileOrder == <<"chroma.sqlite3", "data_level0.bin", "manifest.json">>
NoArgs == [dry_run |-> FALSE, rebuild |-> FALSE, max_pdfs |-> 0]
NoLast == [outcome |-> "none", args |-> NoArgs, diff |-> <<>>]
\* the manifest stored in a vectors prefix / directory: {} when absent
manifest_files(files) ==
  IF MANIFEST_KEY \in DOMAIN files THEN files[MANIFEST_KEY].files ELSE EmptyMap
to_process == changed \o added
UploadPcs == {"upload_files", "put_manifest"}
DiffDone == /\ pc \notin {"idle", "load_manifest", "list", "head", "diff"}
            /\ (pc = "failed" => failedAt \notin {"load_manifest", "list", "head"})
ResetRun ==
  /\ previous_files' = EmptyMap
  /\ pdf_keys' = <<>>
  /\ current_files' = EmptyMap
  /\ added' = <<>> /\ changed' = <<>> /\ removed' = <<>>
  /\ idx' = 1 /\ chunks' = 0 /\ start' = 0
  /\ todo' = {}
  /\ failedAt' = "none"
  /\ embed_calls' = 0
  /\ manifest_gets' = 0 /\ manifest_puts' = 0

\* ----------------------------------------------- serving process at rest
NoTopK == [kind |-> "absent", v |-> 0]
NoEvent == [route |-> "none", qs |-> "none", body |-> "none",
            question |-> "", top_k |-> NoTopK]
NoResp == [status |-> 0, error |-> "none", has_sources |-> FALSE,
           sources |-> {}, answer |-> "none"]
\* _chroma_collection = None
\* (download: the completed download the handle was opened on)
NoCollection == [loaded |-> FALSE, records |-> {}, download |-> 0]
NoPrev == [status |-> 0, raisedAt |-> "none"]
\* the request-local state of lambda_handler between two requests
HandlerIdle ==
  /\ spc = "idle"
  /\ event = NoEvent
  /\ top_k = 0
  /\ ctx = {}
  /\ stodo = {}
  /\ llm_out = "none"
  /\ raisedAt = "none"
  /\ resp = NoResp
\* no serving process
ServeOff ==
  /\ s3_bucket = TRUE
  /\ embed_model = EMBED_MODEL
  /\ chroma_collection = NoCollection
  /\ tmpDir = NoDir
  /\ HandlerIdle
  /\ nreq = 0
  /\ prev_resp = NoPrev
  /\ downloads = 0
\* no call of chunk_text in progress
ChunkOff ==
  /\ ct_args = [text |-> <<>>, chunk_size |-> 1, overlap |-> 0]
  /\ ct_ret = <<>>
  /\ ct_pc = "ret"
\* no answer step in progress
AnswerOff ==
  /\ ask_ctx = <<>>
  /\ context_block = <<>>
  /\ ask_sources = <<>>
  /\ ask_pc = "ret"
\* no batch loop in progress
BatchOff ==
  /\ b_chunks = <<>>
  /\ b_size = 1
  /\ b_start = 0
  /\ b_vectors = <<>>
  /\ b_col = {}
  /\ b_calls = <<>>
  /\ b_pc = "done"
\* no call of embed_with_retry in progress
RetryOff ==
  /\ max_retries = 1
  /\ attempt = 1
  /\ delay = 1
  /\ exc = "none"
  /\ slept = <<>>
  /\ ewr_calls = 0
  /\ ewr_pc = "returned"
Procs == {1, 2}
\* no second process
RaceOff ==
  /\ serialized = TRUE
  /\ rpc = [p \in Procs |-> "idle"]
  /\ rprev = [p \in Procs |-> EmptyMap]
  /\ rcur = [p \in Procs |-> EmptyMap]
  /\ rdir = [p \in Procs |-> NoDir]
  /\ rtodo = [p \in Procs |-> {}]
  /\ rruns = 0
  /\ writer = [f \in VecFiles |-> 0]
  /\ overlapped = FALSE
UnitOff == AnswerOff /\ BatchOff /\ RetryOff /\ RaceOff

Init ==
  /\ source = EmptyMap
  /\ s3vec = EmptyMap
  /\ lDir = NoDir
  /\ pc = "idle"
  /\ args = NoArgs
  /\ previous_files = EmptyMap
  /\ pdf_keys = <<>>
  /\ current_files = EmptyMap
  /\ added = <<>> /\ changed = <<>> /\ removed = <<>>
  /\ idx = 1 /\ chunks = 0 /\ start = 0
  /\ todo = {}
  /\ failedAt = "none"
  /\ embed_calls = 0
  /\ manifest_gets = 0 /\ manifest_puts = 0
  /\ edits = 0
  /\ runs = 0
  /\ pre = [s3vec |-> EmptyMap, lDir |-> NoDir]
  /\ last = NoLast
  /\ ServeOff
  /\ ChunkOff
  /\ UnitOff

\* ------------------------------------------------------ the runbooks prefix
PutObject(k, c, t) ==
  /\ pc = "idle"
  /\ edits < MaxEdits
  /\ (k \in DOMAIN source => source[k] # [content |-> c, lm |-> t])
  /\ source' = Put(source, k, [content |-> c, lm |-> t])
  /\ edits' = edits + 1
  /\ last' = NoLast
  /\ UNCHANGED <<s3vec, lDir, pc, args, previous_files, pdf_keys,
                 current_files, added, changed, removed, idx, chunks, start,
                 todo, failedAt, embed_calls, manifest_gets, manifest_puts,
                 runs, pre>>
  /\ UNCHANGED <<servevars, chunkvars, unitvars>>

DeleteObject(k) ==
  /\ pc = "idle"
  /\ edits < MaxEdits
  /\ k \in DOMAIN source
  /\ source' = Remove(source, k)
  /\ edits' = edits + 1
  /\ last' = NoLast
  /\ UNCHANGED <<s3vec, lDir, pc, args, previous_files, pdf_keys,
                 current_files, added, changed, removed, idx, chunks, start,
                 todo, failedAt, embed_calls, manifest_gets, manifest_puts,
                 runs, pre>>
  /\ UNCHANGED <<servevars, chunkvars, unitvars>>

\* ------------------------------------------------------------------ main()
StartRun(a) ==
  /\ pc = "idle"
  /\ runs < MaxRuns
  /\ runs' = runs + 1
  /\ pc' = "load_manifest"
  /\ args' = a
  /\ pre' = [s3vec |-> s3vec, lDir |-> lDir]
  /\ UNCHANGED <<source, s3vec, lDir, previous_files, pdf_keys, current_files,
                 added, changed, removed, idx, chunks, start, todo, failedAt,
                 embed_calls, manifest_gets, manifest_puts, edits, last>>
  /\ UNCHANGED <<servevars, chunkvars, unitvars>>

\* the process ends; what the next run is compared with is kept in last
Exit ==
  /\ pc \in {"done", "failed"}
  /\ pc' = "idle"
  /\ args' = NoArgs
  /\ ResetRun
  /\ last' = IF pc = "done" /\ ~args.dry_run
             THEN [outcome |-> "done", args |-> args, diff |-> <<>>]
             ELSE IF pc = "failed" /\ failedAt \notin UploadPcs /\ DiffDone
             THEN [outcome |-> "failed",
                   args |-> [NoArgs EXCEPT !.max_pdfs = args.max_pdfs],
                   diff |-> <<added, changed, removed>>]
             ELSE NoLast
  /\ UNCHANGED <<source, s3vec, lDir, edits, runs, pre>>
  /\ UNCHANGED <<servevars, chunkvars, unitvars>>

\* manifest = s3_get_json(...); previous_files = manifest.get("files", {})
LoadManifest ==
  /\ pc = "load_manifest"
  /\ previous_files' = manifest_files(s3vec)
  /\ manifest_gets' = manifest_gets + 1
  /\ manifest_puts' = manifest_puts
  /\ pc' = "list"
  /\ UNCHANGED <<source, s3vec, lDir, args, pdf_keys, current_files, added,
                 changed, removed, idx, chunks, start, todo, failedAt,
                 embed_calls, edits, runs, pre, last>>
  /\ UNCHANGED <<servevars, chunkvars, unitvars>>

\* pdf_keys = s3_list_pdfs(...)[: max_pdfs]; SystemExit when empty
ListPdfs ==
  /\ pc = "list"
  /\ pdf_keys' = cap_pdfs(s3_list_pdfs(source), args.max_pdfs)
  /\ IF pdf_keys' = <<>>
     THEN pc' = "failed" /\ failedAt' = "list"
     ELSE pc' = "head" /\ failedAt' = failedAt
  /\ UNCHANGED <<source, s3vec, lDir, args, previous_files, current_files,
                 added, changed, removed, idx, chunks, start, todo,
                 embed_calls, manifest_gets, manifest_puts,
                 edits, runs, pre, last>>
  /\ UNCHANGED <<servevars, chunkvars, unitvars>>

BuildCurrentState ==
  /\ pc = "head"
  /\ current_files' = build_current_state(source, pdf_keys)
  /\ pc' = "diff"
  /\ UNCHANGED <<source, s3vec, lDir, args, previous_files, pdf_keys, added,
                 changed, removed, idx, chunks, start, todo, failedAt,
                 embed_calls, manifest_gets, manifest_puts,
                 edits, runs, pre, last>>
  /\ UNCHANGED <<servevars, chunkvars, unitvars>>

\* added, changed, removed = compute_diff(...); early return when all empty
ComputeDiff ==
  /\ pc = "diff"
  /\ LET d == compute_diff(previous_files, current_files)
     IN /\ added' = d.added
        /\ changed' = d.changed
        /\ removed' = d.removed
        /\ pc' = IF d.added = <<>> /\ d.changed = <<>> /\ d.removed = <<>>
                 THEN "done" ELSE "prepare"
  /\ UNCHANGED <<source, s3vec, lDir, args, previous_files, pdf_keys,
                 current_files, idx, chunks, start, todo, failedAt,
                 embed_calls, manifest_gets, manifest_puts,
                 edits, runs, pre, last>>
  /\ UNCHANGED <<servevars, chunkvars, unitvars>>

\* a --rebuild that also empties the vectors prefix
prepare_store_wipe(vec, dir, a) ==
  IF a.rebuild
  THEN [vec |-> EmptyMap, dir |-> cleared_dir, todo |-> {}, pc |-> "open"]
  ELSE IF a.dry_run
  THEN [vec |-> vec, dir |-> dir, todo |-> {}, pc |-> "open"]
  ELSE IF DOMAIN vec = {}
  THEN [vec |-> vec, dir |-> dir, todo |-> {}, pc |-> "open"]
  ELSE [vec |-> vec, dir |-> cleared_dir, todo |-> DOMAIN vec,
        pc |-> "download_files"]

\* "Prepare local chroma store": --rebuild clears the directory, --dry-run
\* prints, otherwise s3_download_prefix lists the vectors prefix, returns 0
\* when it holds no object and else clears the directory before downloading
prepare_store(vec, dir, a) ==
  IF a.rebuild
  THEN [vec |-> vec, dir |-> cleared_dir, todo |-> {}, pc |-> "open"]
  ELSE IF a.dry_run
  THEN [vec |-> vec, dir |-> dir, todo |-> {}, pc |-> "open"]
  ELSE IF DOMAIN vec = {}
  THEN [vec |-> vec, dir |-> dir, todo |-> {}, pc |-> "open"]
  ELSE [vec |-> vec, dir |-> cleared_dir, todo |-> DOMAIN vec,
        pc |-> "download_files"]

PrepareStore ==
  /\ pc = "prepare"
  /\ LET r == prepare_store(s3vec, lDir, args)
     IN /\ s3vec' = r.vec
        /\ lDir' = r.dir
        /\ todo' = r.todo
        /\ pc' = r.pc
  /\ UNCHANGED <<source, args, previous_files, pdf_keys, current_files, added,
                 changed, removed, idx, chunks, start, failedAt, embed_calls, manifest_gets, manifest_puts,
                 
                 edits, runs, pre, last>>
  /\ UNCHANGED <<servevars, chunkvars, unitvars>>

\* the next key of the listing order still to download
first_todo(S) == FileOrder[CHOOSE i \in 1..Len(FileOrder) :
                   /\ FileOrder[i] \in S
                   /\ \A j \in 1..(i - 1) : FileOrder[j] \notin S]

\* one s3.download_file of s3_download_prefix
DownloadFile ==
  /\ pc = "download_files"
  /\ todo # {}
  /\ LET f == first_todo(todo)
     IN /\ lDir' = [lDir EXCEPT !.files = Put(lDir.files, f, s3vec[f])]
        /\ todo' = todo \ {f}
        /\ manifest_gets' = IF f = MANIFEST_KEY THEN manifest_gets + 1
                            ELSE manifest_gets
        /\ manifest_puts' = manifest_puts
        /\ pc' = IF todo' = {} THEN "open" ELSE "download_files"
  /\ UNCHANGED <<source, s3vec, args, previous_files, pdf_keys, current_files,
                 added, changed, removed, idx, chunks, start, failedAt,
                 embed_calls, edits, runs, pre, last>>
  /\ UNCHANGED <<servevars, chunkvars, unitvars>>

OpenChroma ==
  /\ pc = "open"
  /\ lDir' = open_chroma(lDir)
  /\ idx' = 1
  /\ pc' = IF removed # <<>> THEN "removals"
           ELSE IF to_process # <<>> THEN "process" ELSE "upload"
  /\ UNCHANGED <<source, s3vec, args, previous_files, pdf_keys, current_files,
                 added, changed, removed, chunks, start, todo, failedAt,
                 embed_calls, manifest_gets, manifest_puts,
                 edits, runs, pre, last>>
  /\ UNCHANGED <<servevars, chunkvars, unitvars>>

\* the effect of chroma_delete_pdf on the persistent directory
delete_in_dir(dir, s3_key, dry_run) ==
  IF dry_run THEN dir
  ELSE Persist(dir, chroma_delete_pdf(CollectionOf(dir), s3_key, dry_run))

\* for k in removed: chroma_delete_pdf(collection, k, args.dry_run)
ApplyRemoval ==
  /\ pc = "removals"
  /\ lDir' = delete_in_dir(lDir, removed[idx], args.dry_run)
  /\ IF idx < Len(removed)
     THEN idx' = idx + 1 /\ pc' = "removals"
     ELSE idx' = 1 /\ pc' = IF to_process # <<>> THEN "process" ELSE "upload"
  /\ UNCHANGED <<source, s3vec, args, previous_files, pdf_keys, current_files,
                 added, changed, removed, chunks, start, todo, failedAt,
                 embed_calls, manifest_gets, manifest_puts,
                 edits, runs, pre, last>>
  /\ UNCHANGED <<servevars, chunkvars, unitvars>>

\* loop head of "for k in to_process": delete old chunks first; the call of
\* chroma_index_pdf is skipped under --dry-run
DeleteOld ==
  /\ pc = "process"
  /\ lDir' = delete_in_dir(lDir, to_process[idx], args.dry_run)
  /\ IF args.dry_run
     THEN /\ idx' = idx + 1
          /\ pc' = IF idx < Len(to_process) THEN "process" ELSE "upload"
     ELSE /\ idx' = idx
          /\ pc' = "index_pdf"
  /\ UNCHANGED <<source, s3vec, args, previous_files, pdf_keys, current_files,
                 added, changed, removed, chunks, start, todo, failedAt,
                 embed_calls, manifest_gets, manifest_puts,
                 edits, runs, pre, last>>
  /\ UNCHANGED <<servevars, chunkvars, unitvars>>

\* a chroma_index_pdf that skips nothing
skip_document_never(n) == FALSE
\* if not chunks and not dry_run: "Skip (no text extracted)"; return 0, 0
skip_document(n) == n = 0

\* chroma_index_pdf up to the batch loop: download, pdf_to_text, chunk_text;
\* a document without chunks is skipped
IndexPdf ==
  /\ pc = "index_pdf"
  /\ LET k == to_process[idx]
         n == chunk_text(source[k].content.textlen)
     IN IF skip_document(n)
        THEN /\ idx' = idx + 1
             /\ pc' = IF idx < Len(to_process) THEN "process" ELSE "upload"
             /\ UNCHANGED <<chunks, start>>
        ELSE /\ chunks' = n
             /\ start' = 0
             /\ pc' = "embed"
             /\ idx' = idx
  /\ UNCHANGED <<source, s3vec, lDir, args, previous_files, pdf_keys,
                 current_files, added, changed, removed, todo, failedAt,
                 embed_calls, manifest_gets, manifest_puts,
                 edits, runs, pre, last>>
  /\ UNCHANGED <<servevars, chunkvars, unitvars>>

\* the records of one batch: chunks[start : start + EMBED_BATCH_SIZE]
batch_records(s3_key, etag, st, n) ==
  {ChunkRecord(s3_key, etag, j) :
     j \in st..(Min(st + EMBED_BATCH_SIZE, n) - 1)}

\* one iteration of the batch loop: embeddings.create + collection.upsert
EmbedUpsertBatch ==
  /\ pc = "embed"
  /\ LET k == to_process[idx]
         recs == batch_records(k, source[k].content.etag, start, chunks)
     IN lDir' = Persist(lDir, chroma_upsert(CollectionOf(lDir), recs))
  /\ start' = start + EMBED_BATCH_SIZE
  /\ embed_calls' = 0
  /\ UNCHANGED <<manifest_gets, manifest_puts>>
  /\ IF start' < chunks
     THEN pc' = "embed" /\ idx' = idx
     ELSE /\ idx' = idx + 1
          /\ pc' = IF idx < Len(to_process) THEN "process" ELSE "upload"
  /\ UNCHANGED <<source, s3vec, args, previous_files, pdf_keys, current_files,
                 added, changed, removed, chunks, todo, failedAt, edits, runs,
                 pre, last>>
  /\ UNCHANGED <<servevars, chunkvars, unitvars>>

\* s3_upload_dir on every file, --dry-run or not
upload_step_always(dir, dry_run) ==
  [todo |-> DOMAIN dir.files, pc |-> "upload_files"]

\* "Upload store + manifest": under --dry-run two prints, otherwise
\* s3_upload_dir walks the files of the local directory
upload_step(dir, dry_run) ==
  IF dry_run THEN [todo |-> {}, pc |-> "done"]
  ELSE [todo |-> DOMAIN dir.files, pc |-> "upload_files"]

BeginUpload ==
  /\ pc = "upload"
  /\ LET u == upload_step(lDir, args.dry_run)
     IN /\ todo' = u.todo
        /\ pc' = u.pc
  /\ UNCHANGED <<source, s3vec, lDir, args, previous_files, pdf_keys,
                 current_files, added, changed, removed, idx, chunks, start,
                 failedAt, embed_calls, manifest_gets, manifest_puts,
                 edits, runs, pre, last>>
  /\ UNCHANGED <<servevars, chunkvars, unitvars>>

\* one s3.upload_file of s3_upload_dir, in os.walk order
UploadFile(f) ==
  /\ pc = "upload_files"
  /\ f \in todo
  /\ s3vec' = Put(s3vec, f, lDir.files[f])
  /\ todo' = todo \ {f}
  /\ manifest_puts' = IF f = MANIFEST_KEY THEN manifest_puts + 1
                      ELSE manifest_puts
  /\ manifest_gets' = manifest_gets
  /\ pc' = IF todo' = {} THEN "put_manifest" ELSE "upload_files"
  /\ UNCHANGED <<source, lDir, args, previous_files, pdf_keys, current_files,
                 added, changed, removed, idx, chunks, start, failedAt,
                 embed_calls, edits, runs, pre, last>>
  /\ UNCHANGED <<servevars, chunkvars, unitvars>>

\* new_manifest: "embed_model": EMBED_MODEL, "files": current_files
new_manifest(cur) == [files |-> cur, embed_model |-> EMBED_MODEL]

\* s3_put_json(S3_BUCKET, MANIFEST_KEY, new_manifest)
PutManifest ==
  /\ pc = "put_manifest"
  /\ s3vec' = Put(s3vec, MANIFEST_KEY, new_manifest(current_files))
  /\ manifest_puts' = manifest_puts + 1
  /\ manifest_gets' = manifest_gets
  /\ pc' = "done"
  /\ UNCHANGED <<source, lDir, args, previous_files, pdf_keys, current_files,
                 added, changed, removed, idx, chunks, start, todo, failedAt,
                 embed_calls, edits, runs, pre, last>>
  /\ UNCHANGED <<servevars, chunkvars, unitvars>>

\* the steps that call S3, OpenAI or Chroma and so may raise
CanFail ==
  \/ pc \in {"load_manifest", "list", "head", "download_files", "open",
             "index_pdf", "embed", "upload_files", "put_manifest"}
  \/ pc \in {"removals", "process"} /\ ~args.dry_run
  \/ pc = "prepare" /\ ~args.dry_run /\ ~args.rebuild

\* an exception propagates out of main(): the process exits
Fail ==
  /\ CanFail
  /\ failedAt' = pc
  /\ embed_calls' = IF pc = "embed" THEN embed_calls + 1 ELSE embed_calls
  /\ UNCHANGED <<manifest_gets, manifest_puts>>
  /\ pc' = "failed"
  /\ UNCHANGED <<source, s3vec, lDir, args, previous_files, pdf_keys,
                 current_files, added, changed, removed, idx, chunks, start,
                 todo, edits, runs, pre, last>>
  /\ UNCHANGED <<servevars, chunkvars, unitvars>>

ArgSet == [dry_run : BOOLEAN, rebuild : BOOLEAN, max_pdfs : 0..MaxPdfsArg]

Next ==
  \/ \E k \in Keys, c \in Contents, t \in Times : PutObject(k, c, t)
  \/ \E k \in Keys : DeleteObject(k)
  \/ \E a \in ArgSet : StartRun(a)
  \/ Exit
  \/ LoadManifest
  \/ ListPdfs
  \/ BuildCurrentState
  \/ ComputeDiff
  \/ PrepareStore
  \/ DownloadFile
  \/ OpenChroma
  \/ ApplyRemoval
  \/ DeleteOld
  \/ IndexPdf
  \/ EmbedUpsertBatch
  \/ BeginUpload
  \/ \E f \in VecFiles : UploadFile(f)
  \/ PutManifest
  \/ Fail

Spec == Init /\ [][Next]_vars

TypeOK ==
  /\ DOMAIN source \subseteq Keys
  /\ DOMAIN s3vec \subseteq VecFiles
  /\ pc \in {"idle", "load_manifest", "list", "head", "diff", "prepare",
             "download_files", "open", "removals", "process", "index_pdf",
             "embed", "upload", "upload_files", "put_manifest", "done",
             "failed"}

\* ---------------------------------------------------------------------------
\* compute_diff on arbitrary inputs: previous and current file maps over four
\* keys, with metadata that differs in the ETag only, in last_modified only,
\* in size only, or lacks the ETag
DiffKeys == {"d1.pdf", "d2.pdf", "d3.pdf", "d4.pdf"}
DiffMetas ==
  { [etag |-> "e1", size |-> 10, last_modified |-> 1],
    [etag |-> "e2", size |-> 10, last_modified |-> 1],
    [etag |-> "e1", size |-> 10, last_modified |-> 2],
    [etag |-> "e1", size |-> 20, last_modified |-> 1],
    [etag |-> "", size |-> 10, last_modified |-> 1] }
DiffMaps ==
  UNION {[S -> DiffMetas] : S \in SUBSET DiffKeys}
WithKey(m) ==
  [k \in DOMAIN m |-> [key |-> k, etag |-> m[k].etag, size |-> m[k].size,
                        last_modified |-> m[k].last_modified]]

DiffInit ==
  /\ source = EmptyMap
  /\ s3vec = EmptyMap
  /\ lDir = NoDir
  /\ pc = "diff"
  /\ args = NoArgs
  /\ \E p \in DiffMaps : previous_files = WithKey(p)
  /\ \E c \in DiffMaps : current_files = WithKey(c)
  /\ pdf_keys = Sorted(DOMAIN current_files)
  /\ added = <<>> /\ changed = <<>> /\ removed = <<>>
  /\ idx = 1 /\ chunks = 0 /\ start = 0
  /\ todo = {}
  /\ failedAt = "none"
  /\ embed_calls = 0
  /\ manifest_gets = 0 /\ manifest_puts = 0
  /\ edits = 0
  /\ runs = 1
  /\ pre = [s3vec |-> EmptyMap, lDir |-> NoDir]
  /\ last = NoLast
  /\ ServeOff
  /\ ChunkOff
  /\ UnitOff

DiffNext == ComputeDiff

SpecDiff == DiffInit /\ [][DiffNext]_vars

BothKeys == (DOMAIN previous_files) \cap (DOMAIN current_files)
SameMeta(p, c) ==
  /\ p.etag = c.etag
  /\ p.size = c.size
  /\ p.last_modified = c.last_modified

\* C1: compute_diff returns added = keys(C) \ keys(P), removed = keys(P) \
\* keys(C) and changed within keys(C) \cap keys(P), so the three are pairwise
\* disjoint; a key in both maps with two different (non-empty) ETags is in
\* changed, and a key in both maps with identical etag, size and
\* last_modified is in none of the three.
C1_DiffCorrect ==
  DiffDone =>
    /\ Range(added) = (DOMAIN current_files) \ (DOMAIN previous_files)
    /\ Range(removed) = (DOMAIN previous_files) \ (DOMAIN current_files)
    /\ Range(changed) \subseteq BothKeys
    /\ Range(added) \cap Range(changed) = {}
    /\ Range(added) \cap Range(removed) = {}
    /\ Range(changed) \cap Range(removed) = {}
    /\ Len(added) = Cardinality(Range(added))
    /\ Len(changed) = Cardinality(Range(changed))
    /\ Len(removed) = Cardinality(Range(removed))
    /\ \A k \in BothKeys :
         /\ ( /\ previous_files[k].etag # ""
              /\ current_files[k].etag # ""
              /\ previous_files[k].etag # current_files[k].etag )
            => k \in Range(changed)
         /\ SameMeta(previous_files[k], current_files[k])
            => k \notin Range(added) \cup Range(changed) \cup Range(removed)

\* the four-document case: D1 new, D2 with another ETag, D3 identical, D4 gone
C1_Witness ==
  /\ DiffDone
  /\ DOMAIN previous_files = {"d2.pdf", "d3.pdf", "d4.pdf"}
  /\ DOMAIN current_files = {"d1.pdf", "d2.pdf", "d3.pdf"}
  /\ previous_files["d2.pdf"].etag = "e1"
  /\ current_files["d2.pdf"].etag = "e2"
  /\ SameMeta(previous_files["d3.pdf"], current_files["d3.pdf"])
  /\ added = <<"d1.pdf">>
  /\ changed = <<"d2.pdf">>
  /\ removed = <<"d4.pdf">>

\* ---------------------------------------------------------------------------
\* the run machine
Running == pc # "idle"
RecordsOf(col, k) == {r \in col : r.s3_key = k}
\* the chunk records this run produces for a listed key
NewRecords(k) ==
  {ChunkRecord(k, source[k].content.etag, j) :
     j \in 0..(chunk_text(source[k].content.textlen) - 1)}
\* the records a client of the durable index sees
DurableRecords(vec) == CollectionOf([exists |-> TRUE, files |-> vec])
AfterLoops == {"upload", "upload_files", "put_manifest", "done"}
\* position j of to_process has been handled by the loop
ProcessedAt(j) ==
  \/ pc \in {"process", "index_pdf", "embed"} /\ j < idx
  \/ pc \in AfterLoops
\* position j of removed has been handled by the loop
RemovedAt(j) ==
  \/ pc = "removals" /\ j < idx
  \/ pc \in {"process", "index_pdf", "embed"} \cup AfterLoops
Uploaded == pc = "done" /\ ~args.dry_run /\ to_process \o removed # <<>>

\* C2: a key present in the previous manifest and in the current listing
\* whose ETag is non-empty and equal on both sides is not classified as
\* changed (and so is not deleted, downloaded, embedded or upserted),
\* whatever its size and last_modified are.
C2_SameEtagNotReprocessed ==
  DiffDone =>
    \A k \in BothKeys :
      ( /\ previous_files[k].etag # ""
        /\ previous_files[k].etag = current_files[k].etag )
      => k \notin Range(to_process)

\* C3: in a non-dry run, once a changed key has been processed the local
\* index holds for it exactly the records of the chunks this run produced
\* (N_new of them, also when N_new < N_old and when N_new = 0); its old
\* records are gone before the first new one is upserted; and after the
\* upload the durable index holds exactly the same records for it.
C3_ReplaceNotMerge ==
  (Running /\ ~args.dry_run) =>
    \A j \in 1..Len(changed) :
      LET k == changed[j]
          have == RecordsOf(CollectionOf(lDir), k)
      IN /\ ProcessedAt(j) =>
              /\ have = NewRecords(k)
              /\ Cardinality(have) = chunk_text(source[k].content.textlen)
         /\ (pc = "index_pdf" /\ idx = j) => have = {}
         /\ (pc = "embed" /\ idx = j) =>
              have = {r \in NewRecords(k) : r.chunk < start}
         /\ Uploaded =>
              \A f \in StoreFiles : RecordsOf(s3vec[f], k) = NewRecords(k)

\* a changed key with two old records and one new chunk has been processed
\* and uploaded
C3_Witness ==
  /\ Uploaded
  /\ \E j \in 1..Len(changed) :
       /\ Cardinality(RecordsOf(DurableRecords(pre.s3vec), changed[j])) = 2
       /\ Cardinality(NewRecords(changed[j])) = 1

\* a changed key with old records and no new chunk has been processed
C3_WitnessEmpty ==
  /\ Uploaded
  /\ \E j \in 1..Len(changed) :
       /\ Cardinality(RecordsOf(DurableRecords(pre.s3vec), changed[j])) = 2
       /\ NewRecords(changed[j]) = {}

\* C4: in a non-dry run, once a removed key has been processed no record of
\* the local index carries it as source key, and after the upload no record
\* of the durable index does.
C4_NoOrphanAfterRemoval ==
  (Running /\ ~args.dry_run) =>
    \A j \in 1..Len(removed) :
      /\ RemovedAt(j) => RecordsOf(CollectionOf(lDir), removed[j]) = {}
      /\ Uploaded => \A f \in StoreFiles : RecordsOf(s3vec[f], removed[j]) = {}

\* a removed key that had records in the durable index has been processed
\* and the run has uploaded
C4_Witness ==
  /\ Uploaded
  /\ \E j \in 1..Len(removed) :
       /\ removed[j] \notin DOMAIN source
       /\ RecordsOf(DurableRecords(pre.s3vec), removed[j]) # {}

\* C5: between runs, every record of the durable index has a source key that
\* is a key of the files map of the durable manifest.
C5_NoOrphanRecords ==
  pc \in {"idle", "done", "failed"} =>
    \A r \in DurableRecords(s3vec) : r.s3_key \in DOMAIN manifest_files(s3vec)

\* C6: a --dry-run run writes nothing to the vectors prefix: index files and
\* manifest are those of the start of the run at every step, for every diff
\* and every --rebuild / --max-pdfs.
C6_DryRunNoDurableWrite ==
  (Running /\ args.dry_run) => s3vec = pre.s3vec

\* a --dry-run --rebuild run with a cap and a non-empty diff has ended over
\* a non-empty durable index
C6_Witness ==
  /\ pc = "done"
  /\ args = [dry_run |-> TRUE, rebuild |-> TRUE, max_pdfs |-> 1]
  /\ to_process # <<>>
  /\ DurableRecords(s3vec) # {}

\* C7: a --dry-run run leaves the local index directory as it was: neither
\* cleared nor created, no record added or deleted.
C7_DryRunNoLocalWrite ==
  (Running /\ args.dry_run) => lDir = pre.lDir

\* C8: a run that fails before the upload step has written nothing to the
\* vectors prefix, and the next run over the unchanged source with the same
\* document cap computes the diff the failed run computed.
C8_FailClosedBeforeUpload ==
  /\ (pc = "failed" /\ failedAt \notin UploadPcs) => s3vec = pre.s3vec
  /\ ( /\ last.outcome = "failed"
       /\ Running
       /\ args.max_pdfs = last.args.max_pdfs
       /\ DiffDone )
     => <<added, changed, removed>> = last.diff

\* a run failed after it had added records to the local index, and the next
\* run has computed its diff
C8_Witness ==
  /\ last.outcome = "failed"
  /\ Running
  /\ args.max_pdfs = last.args.max_pdfs
  /\ DiffDone
  /\ added # <<>>
  /\ CollectionOf(pre.lDir) # {}
  /\ s3vec = pre.s3vec

\* C9: a run that fails in the upload step, while uploading the index files
\* or while writing the manifest, leaves the vectors prefix as it was at the
\* start of the run.
C9_FailedUploadKeepsSnapshot ==
  (pc = "failed" /\ failedAt \in UploadPcs) => s3vec = pre.s3vec

\* C10: after a successful non-dry run, the next run with the same flags over
\* the unchanged source computes three empty sets and ends at once: nothing
\* downloaded, mutated or uploaded.
C10_SecondRunIsNoOp ==
  ( /\ last.outcome = "done"
    /\ Running
    /\ args = last.args
    /\ DiffDone )
  => /\ added = <<>> /\ changed = <<>> /\ removed = <<>>
     /\ pc = "done"
     /\ s3vec = pre.s3vec
     /\ lDir = pre.lDir

\* the second run has ended over an index the first run filled
C10_Witness ==
  /\ last.outcome = "done"
  /\ args = last.args
  /\ pc = "done"
  /\ DurableRecords(s3vec) # {}
  /\ DOMAIN manifest_files(s3vec) = Keys

\* ---------------------------------------------------------------------------
\* The serving process (lambda/app.py): lambda_handler, called once per
\* request, over the module globals _chroma_collection and CHROMA_LOCAL_DIR.
\*  - The vectors prefix does not change while the process lives.
\*  - A collaborator call (S3, Chroma, OpenAI) returns or raises.
\*  - The nearest neighbours of a question are any n_results records.
MaxRequests == 3
\* top_k values of a request body
TopKs == {-1, 0, 1, 2, 10, 11}
SENTINEL == "No answer returned."

\* the builder's durable output for a runbooks prefix: index files + manifest
RecordsFor(src) ==
  UNION { {ChunkRecord(k, src[k].content.etag, j) :
             j \in 0..(chunk_text(src[k].content.textlen) - 1)} :
          k \in DOMAIN src }
Published(src) ==
  [f \in VecFiles |->
     IF f = MANIFEST_KEY
     THEN new_manifest(build_current_state(src, s3_list_pdfs(src)))
     ELSE RecordsFor(src)]
Doc(e, t) == [content |-> CHOOSE c \in Contents : c.etag = e, lm |-> t]
\* vectors prefixes a serving process starts over: never built, one document,
\* two documents
ServeStores ==
  { EmptyMap,
    Published("d1.pdf" :> Doc("e1", 1)),
    Published(("d1.pdf" :> Doc("e1", 1)) @@ ("d2.pdf" :> Doc("e2", 1))) }

\* the requests
AskBodies ==
  {[route |-> "ask", qs |-> "none", body |-> b, question |-> "",
    top_k |-> NoTopK] : b \in {"empty", "invalid", "not_object"}}
  \cup
  {[route |-> "ask", qs |-> "none", body |-> "object", question |-> q,
    top_k |-> t] :
     q \in {"", "q", "nonstr"},
     t \in {NoTopK, [kind |-> "str_bad", v |-> 0], [kind |-> "list", v |-> 0],
            [kind |-> "str_int", v |-> 7]}
           \cup {[kind |-> "int", v |-> n] : n \in TopKs}}
Events ==
  AskBodies
  \cup {[route |-> r, qs |-> "none", body |-> "none", question |-> "",
         top_k |-> NoTopK] :
          r \in {"options", "health", "news", "runbooks", "agents", "other"}}
  \cup {[route |-> "doc", qs |-> q, body |-> "none", question |-> "",
         top_k |-> NoTopK] : q \in {"key", "name", "none"}}

\* exception classes raised inside lambda_handler (all derive from Exception)
S3Steps == {"s3_call", "list_vectors", "download"}
ChromaSteps == {"open", "count", "query"}
OpenAISteps == {"embed", "answer"}
RaisedBy(step) ==
  IF step \in S3Steps THEN {"ClientError"}
  ELSE IF step \in OpenAISteps THEN {"RuntimeError", "Exception"}
  ELSE {"Exception"}

\* the except clauses without the last one
except_clause_narrow(kind) ==
  IF kind = "ValueError"
  THEN [caught |-> TRUE, status |-> 400, error |-> "BAD_REQUEST"]
  ELSE IF kind = "ClientError"
  THEN [caught |-> TRUE, status |-> 500, error |-> "AWS_ERROR"]
  ELSE [caught |-> FALSE, status |-> 0, error |-> "none"]

\* except ValueError / except ClientError / except Exception
except_clause(kind) ==
  IF kind = "ValueError"
  THEN [caught |-> TRUE, status |-> 400, error |-> "BAD_REQUEST"]
  ELSE IF kind = "ClientError"
  THEN [caught |-> TRUE, status |-> 500, error |-> "AWS_ERROR"]
  ELSE [caught |-> TRUE, status |-> 500, error |-> "UNHANDLED"]

\* _response(event, status, {"error": ...})
ErrorBody(status, error) ==
  [status |-> status, error |-> error, has_sources |-> FALSE,
   sources |-> {}, answer |-> "none"]
\* _response(event, 200, {...}) of a route other than ask
OkBody == [status |-> 200, error |-> "none", has_sources |-> FALSE,
           sources |-> {}, answer |-> "none"]
\* _response(event, 200, {"question", "top_k", "sources", "answer"})
AskBody(contexts, ans) ==
  [status |-> 200, error |-> "none", has_sources |-> TRUE,
   sources |-> {[s3_key |-> c.s3_key, chunk |-> c.chunk] : c \in contexts},
   answer |-> ans]

\* int(req.get("top_k") or 5)
int_top_k(t) ==
  IF t.kind = "absent" \/ (t.kind = "int" /\ t.v = 0) THEN 5 ELSE t.v
\* if top_k < 1 or top_k > 10: top_k = 5
limit_top_k(n) == IF n < 1 \/ n > 10 THEN 5 ELSE n

\* the head of the ask route: body, question, top_k, in the code's order
ask_validate(e) ==
  IF e.body = "invalid" THEN [raise |-> "ValueError", missing |-> FALSE, top_k |-> 0]
  ELSE IF e.body = "not_object"
  THEN [raise |-> "AttributeError", missing |-> FALSE, top_k |-> 0]
  ELSE IF e.body = "object" /\ e.question = "nonstr"
  THEN [raise |-> "AttributeError", missing |-> FALSE, top_k |-> 0]
  ELSE IF e.body = "object" /\ e.top_k.kind = "str_bad"
  THEN [raise |-> "ValueError", missing |-> FALSE, top_k |-> 0]
  ELSE IF e.body = "object" /\ e.top_k.kind = "list"
  THEN [raise |-> "TypeError", missing |-> FALSE, top_k |-> 0]
  ELSE IF e.body = "empty" \/ e.question = ""
  THEN [raise |-> "none", missing |-> TRUE, top_k |-> 0]
  ELSE [raise |-> "none", missing |-> FALSE,
        top_k |-> limit_top_k(int_top_k(e.top_k))]

\* the handler returns r
Respond(r) ==
  /\ resp' = r
  /\ spc' = "responded"
\* an exception of class kind reaches the except clauses of lambda_handler
Except(kind) ==
  LET c == except_clause(kind)
  IN IF c.caught
     THEN Respond(ErrorBody(c.status, c.error))
     ELSE resp' = resp /\ spc' = "crashed"

ServeInit ==
  /\ source = EmptyMap
  /\ s3vec \in ServeStores
  /\ lDir = NoDir
  /\ pc = "idle"
  /\ args = NoArgs
  /\ previous_files = EmptyMap
  /\ pdf_keys = <<>>
  /\ current_files = EmptyMap
  /\ added = <<>> /\ changed = <<>> /\ removed = <<>>
  /\ idx = 1 /\ chunks = 0 /\ start = 0
  /\ todo = {}
  /\ failedAt = "none"
  /\ embed_calls = 0
  /\ manifest_gets = 0 /\ manifest_puts = 0
  /\ edits = 0
  /\ runs = 0
  /\ pre = [s3vec |-> EmptyMap, lDir |-> NoDir]
  /\ last = NoLast
  /\ s3_bucket \in BOOLEAN
  /\ embed_model \in Models
  /\ chroma_collection = NoCollection
  /\ tmpDir = NoDir
  /\ HandlerIdle
  /\ nreq = 0
  /\ prev_resp = NoPrev
  /\ downloads = 0
  /\ ChunkOff
  /\ UnitOff

\* API Gateway invokes lambda_handler(event, context)
Receive(e) ==
  /\ spc = "idle"
  /\ nreq < MaxRequests
  /\ nreq' = nreq + 1
  /\ event' = e
  /\ spc' = "route"
  /\ UNCHANGED <<s3_bucket, embed_model, chroma_collection, tmpDir, top_k, ctx,
                 stodo, llm_out, raisedAt, resp, prev_resp, downloads>>
  /\ UNCHANGED <<buildvars, chunkvars, unitvars>>

\* lambda_handler up to the first collaborator call of the route
Dispatch ==
  /\ spc = "route"
  /\ IF event.route \in {"options", "health", "news"}
     THEN Respond(OkBody) /\ top_k' = top_k
     ELSE IF event.route = "other"
     THEN Respond(ErrorBody(404, "NOT_FOUND")) /\ top_k' = top_k
     ELSE IF event.route \in {"runbooks", "doc", "agents"}
     THEN /\ top_k' = top_k
          /\ IF ~s3_bucket
             THEN Respond(ErrorBody(500, "S3_BUCKET not set"))
             ELSE IF event.route = "doc" /\ event.qs = "none"
             THEN Respond(ErrorBody(400, "Provide ?name= or ?key="))
             ELSE resp' = resp /\ spc' = "s3_call"
     ELSE LET v == ask_validate(event)
          IN IF v.raise # "none" THEN Except(v.raise) /\ top_k' = top_k
             ELSE IF v.missing
             THEN Respond(ErrorBody(400, "MISSING_QUESTION")) /\ top_k' = top_k
             ELSE resp' = resp /\ spc' = "ensure_chroma" /\ top_k' = v.top_k
  /\ UNCHANGED <<s3_bucket, embed_model, chroma_collection, tmpDir, event, ctx,
                 stodo, llm_out, raisedAt, nreq, prev_resp, downloads>>
  /\ UNCHANGED <<buildvars, chunkvars, unitvars>>

\* the S3 call of GET /runbooks, /doc, /agents has returned
S3Route ==
  /\ spc = "s3_call"
  /\ \/ Respond(OkBody)
     \/ event.route = "doc" /\ event.qs = "name"
        /\ Respond(ErrorBody(404, "Runbook not found"))
     \/ event.route = "agents" /\ Except("ValueError")
  /\ UNCHANGED <<s3_bucket, embed_model, chroma_collection, tmpDir, event,
                 top_k, ctx, stodo, llm_out, raisedAt, nreq, prev_resp,
                 downloads>>
  /\ UNCHANGED <<buildvars, chunkvars, unitvars>>

\* an _ensure_chroma that downloads on every call
ensure_chroma_always(col, bucket) ==
  IF ~bucket THEN "raise" ELSE "list_vectors"

\* _ensure_chroma up to _download_prefix: where it goes next
ensure_chroma(col, bucket) ==
  IF col.loaded THEN "embed"
  ELSE IF ~bucket THEN "raise"
  ELSE "list_vectors"

EnsureChroma ==
  /\ spc = "ensure_chroma"
  /\ LET n == ensure_chroma(chroma_collection, s3_bucket)
     IN IF n = "raise"
        THEN Except("RuntimeError") /\ raisedAt' = "ensure_chroma"
        ELSE resp' = resp /\ spc' = n /\ raisedAt' = raisedAt
  /\ UNCHANGED <<s3_bucket, embed_model, chroma_collection, tmpDir, event,
                 top_k, ctx, stodo, llm_out, nreq, prev_resp, downloads>>
  /\ UNCHANGED <<buildvars, chunkvars, unitvars>>

\* _download_prefix: list; no key raises, else rmtree + makedirs
ListVectors ==
  /\ spc = "list_vectors"
  /\ IF DOMAIN s3vec = {}
     THEN /\ Except("RuntimeError")
          /\ raisedAt' = "list_vectors"
          /\ UNCHANGED <<tmpDir, stodo>>
     ELSE /\ tmpDir' = cleared_dir
          /\ stodo' = DOMAIN s3vec
          /\ spc' = "download"
          /\ UNCHANGED <<resp, raisedAt>>
  /\ UNCHANGED <<s3_bucket, embed_model, chroma_collection, event, top_k, ctx,
                 llm_out, nreq, prev_resp, downloads>>
  /\ UNCHANGED <<buildvars, chunkvars, unitvars>>

\* one s3.download_file of _download_prefix
ServeDownloadFile ==
  /\ spc = "download"
  /\ LET f == first_todo(stodo)
     IN /\ tmpDir' = [tmpDir EXCEPT !.files = Put(tmpDir.files, f, s3vec[f])]
        /\ stodo' = stodo \ {f}
  /\ IF stodo' = {}
     THEN spc' = "open" /\ downloads' = downloads + 1
     ELSE spc' = "download" /\ downloads' = downloads
  /\ UNCHANGED <<s3_bucket, embed_model, chroma_collection, event, top_k, ctx,
                 llm_out, raisedAt, resp, nreq, prev_resp>>
  /\ UNCHANGED <<buildvars, chunkvars, unitvars>>

\* PersistentClient + _chroma_collection = get_or_create_collection(...)
OpenCollection ==
  /\ spc = "open"
  /\ tmpDir' = open_chroma(tmpDir)
  /\ chroma_collection' = [loaded |-> TRUE, records |-> CollectionOf(tmpDir),
                           download |-> downloads]
  /\ spc' = "count"
  /\ UNCHANGED <<s3_bucket, embed_model, event, top_k, ctx, stodo, llm_out,
                 raisedAt, resp, nreq, prev_resp, downloads>>
  /\ UNCHANGED <<buildvars, chunkvars, unitvars>>

\* _ = _chroma_collection.count()
CountCollection ==
  /\ spc = "count"
  /\ spc' = "embed"
  /\ UNCHANGED <<s3_bucket, embed_model, chroma_collection, tmpDir, event,
                 top_k, ctx, stodo, llm_out, raisedAt, resp, nreq, prev_resp,
                 downloads>>
  /\ UNCHANGED <<buildvars, chunkvars, unitvars>>

\* q = _embed(question): embeddings.create(model=EMBED_MODEL, ...)
EmbedQuestion ==
  /\ spc = "embed"
  /\ spc' = "query"
  /\ UNCHANGED <<s3_bucket, embed_model, chroma_collection, tmpDir, event,
                 top_k, ctx, stodo, llm_out, raisedAt, resp, nreq, prev_resp,
                 downloads>>
  /\ UNCHANGED <<buildvars, chunkvars, unitvars>>

\* col.query(query_embeddings=[q], n_results=top_k)
QueryIndex ==
  /\ spc = "query"
  /\ \E S \in SUBSET chroma_collection.records :
       /\ Cardinality(S) = Min(top_k, Cardinality(chroma_collection.records))
       /\ ctx' = S
  /\ spc' = "answer"
  /\ UNCHANGED <<s3_bucket, embed_model, chroma_collection, tmpDir, event,
                 top_k, stodo, llm_out, raisedAt, resp, nreq, prev_resp,
                 downloads>>
  /\ UNCHANGED <<buildvars, chunkvars, unitvars>>

\* _answer: responses.create returned; text extraction; the 200 response
AnswerQuestion ==
  /\ spc = "answer"
  /\ \E out \in {"text", "empty"} :
       /\ llm_out' = out
       /\ Respond(AskBody(ctx, IF out = "text" THEN "text" ELSE SENTINEL))
  /\ UNCHANGED <<s3_bucket, embed_model, chroma_collection, tmpDir, event,
                 top_k, ctx, stodo, raisedAt, nreq, prev_resp, downloads>>
  /\ UNCHANGED <<buildvars, chunkvars, unitvars>>

\* a collaborator call raises
Raise(kind) ==
  /\ spc \in S3Steps \cup ChromaSteps \cup OpenAISteps
  /\ kind \in RaisedBy(spc)
  /\ raisedAt' = spc
  /\ Except(kind)
  /\ UNCHANGED <<s3_bucket, embed_model, chroma_collection, tmpDir, event,
                 top_k, ctx, stodo, llm_out, nreq, prev_resp, downloads>>
  /\ UNCHANGED <<buildvars, chunkvars, unitvars>>

\* the response has been delivered; the process waits for the next request
Return ==
  /\ spc = "responded"
  /\ prev_resp' = [status |-> resp.status, raisedAt |-> raisedAt]
  /\ spc' = "idle"
  /\ event' = NoEvent
  /\ top_k' = 0
  /\ ctx' = {}
  /\ stodo' = {}
  /\ llm_out' = "none"
  /\ raisedAt' = "none"
  /\ resp' = NoResp
  /\ UNCHANGED <<s3_bucket, embed_model, chroma_collection, tmpDir, nreq,
                 downloads>>
  /\ UNCHANGED <<buildvars, chunkvars, unitvars>>

\* the process ends and a new one starts (cold start)
Restart ==
  /\ spc = "idle"
  /\ chroma_collection # NoCollection \/ tmpDir # NoDir
  /\ chroma_collection' = NoCollection
  /\ tmpDir' = NoDir
  /\ downloads' = 0
  /\ prev_resp' = NoPrev
  /\ UNCHANGED <<s3_bucket, embed_model, spc, event, top_k, ctx, stodo,
                 llm_out, raisedAt, resp, nreq>>
  /\ UNCHANGED <<buildvars, chunkvars, unitvars>>

ServeNext ==
  \/ \E e \in Events : Receive(e)
  \/ Dispatch
  \/ S3Route
  \/ EnsureChroma
  \/ ListVectors
  \/ ServeDownloadFile
  \/ OpenCollection
  \/ CountCollection
  \/ EmbedQuestion
  \/ QueryIndex
  \/ AnswerQuestion
  \/ \E kind \in {"ClientError", "RuntimeError", "Exception"} : Raise(kind)
  \/ Return
  \/ Restart

SpecServe == ServeInit /\ [][ServeNext]_vars

\* the request being answered is a question-answering request
AskResponded == spc = "responded" /\ event.route = "ask"
SourcesOf(contexts) == {[s3_key |-> c.s3_key, chunk |-> c.chunk] : c \in contexts}

\* C11: when the language-model call of a valid question raises or returns
\* no extractable text after retrieval succeeded, the request ends with a 200
\* response whose answer is "No answer returned." and whose sources are the
\* retrieved chunks.
C11_FailedModelCallGivesSentinel ==
  (AskResponded /\ (raisedAt = "answer" \/ llm_out = "empty")) =>
    /\ resp.status = 200
    /\ resp.answer = SENTINEL
    /\ resp.has_sources
    /\ resp.sources = SourcesOf(ctx)

\* C12: every response to POST /runbooks/ask carries a sources array.
C12_AskResponseHasSources ==
  AskResponded => resp.has_sources

RequestedTopK(e) == IF e.top_k.kind = "absent" THEN 5 ELSE e.top_k.v
\* C14: the count passed to the index query is the requested count clamped
\* to [1,10]: 5 when the request gives none, 10 for a count above 10, 1 for a
\* count below 1.
C14_TopKClampedToNearestBound ==
  (spc = "query" /\ event.route = "ask") =>
    /\ top_k \in 1..10
    /\ top_k = Max(1, Min(10, RequestedTopK(event)))

\* C15: the handle is loaded only by a download of every object of the
\* vectors prefix that completed; no query, embedding or answer step runs
\* without a loaded handle; while the handle is loaded no download is in
\* progress and none has completed since the one it was opened on; and after
\* a failure of the download or of the open the handle is unloaded.
C15_LoadOnlyByFullDownload ==
  /\ chroma_collection.loaded =>
       /\ downloads >= 1
       /\ chroma_collection.download = downloads
       /\ \A f \in DOMAIN s3vec :
            f \in DOMAIN tmpDir.files /\ tmpDir.files[f] = s3vec[f]
       /\ chroma_collection.records = DurableRecords(s3vec)
       /\ spc \notin {"list_vectors", "download", "open"}
  /\ spc \in {"embed", "query", "answer"} => chroma_collection.loaded
  /\ ( spc = "responded"
       /\ raisedAt \in {"ensure_chroma", "list_vectors", "download", "open"} )
     => ~chroma_collection.loaded

\* after a request whose download failed, the next request downloaded and
\* loaded the index, and a third request queries it without a new download
C15_Witness ==
  /\ nreq = 3
  /\ spc = "query"
  /\ prev_resp.status = 200
  /\ chroma_collection.loaded
  /\ chroma_collection.records # {}
  /\ downloads = 1

\* the open of a request fails after its download; the next request
\* downloads again and loads the handle
C15_WitnessReopen ==
  /\ prev_resp.raisedAt = "open"
  /\ spc = "query"
  /\ chroma_collection.loaded
  /\ downloads = 2

\* the download of a request fails and the next request downloads again
C15_WitnessRetry ==
  /\ prev_resp.raisedAt = "download"
  /\ spc = "query"
  /\ chroma_collection.loaded
  /\ downloads = 1

\* the embedding model recorded for the durable index
IndexModel(vec) == vec[MANIFEST_KEY].embed_model
\* C16: a query compares the question's vector only with index vectors of the
\* same embedding model, and a serving process whose model differs from the
\* model recorded for the index answers no question.
C16_ModelMismatchRejected ==
  /\ spc \in {"query", "answer"} =>
       \A r \in chroma_collection.records : r.model = embed_model
  /\ (AskResponded /\ resp.status = 200) =>
       embed_model = IndexModel(s3vec)

\* ---------------------------------------------------------------------------
\* chunk_text(text, chunk_size, overlap) on texts over a two-letter alphabet
\* with blanks (the whitespace str.strip removes)
MaxTextLen == 5
MaxChunkSize == 3
Alphabet == {"a", "b", " "}
Texts == UNION {[1..n -> Alphabet] : n \in 0..MaxTextLen}

RECURSIVE lstrip(_)
lstrip(t) == IF t = <<>> \/ Head(t) # " " THEN t ELSE lstrip(Tail(t))
RECURSIVE rstrip(_)
rstrip(t) ==
  IF t = <<>> \/ t[Len(t)] # " " THEN t
  ELSE rstrip(SubSeq(t, 1, Len(t) - 1))
\* (text or "").strip()
strip(t) == rstrip(lstrip(t))
\* the Python slice t[i:j], 0 <= i <= j
slice(t, i, j) == SubSeq(t, i + 1, Min(j, Len(t)))

\* a step of the whole chunk size
step_no_overlap(chunk_size, overlap) == Max(1, chunk_size)
\* step = max(1, chunk_size - overlap)
step_of(chunk_size, overlap) == Max(1, chunk_size - overlap)
\* while i < len(text): chunks.append(text[i : i + chunk_size]); i += step
RECURSIVE chunk_while(_, _, _, _)
chunk_while(t, i, chunk_size, step) ==
  IF i < Len(t)
  THEN <<slice(t, i, i + chunk_size)>> \o
       chunk_while(t, i + step, chunk_size, step)
  ELSE <<>>
\* chunk_text returning the list of chunks
chunk_text_list(text, chunk_size, overlap) ==
  LET t == strip(text)
  IN IF t = <<>> THEN <<>>
     ELSE chunk_while(t, 0, chunk_size, step_of(chunk_size, overlap))

ChunkInit ==
  /\ source = EmptyMap
  /\ s3vec = EmptyMap
  /\ lDir = NoDir
  /\ pc = "idle"
  /\ args = NoArgs
  /\ previous_files = EmptyMap
  /\ pdf_keys = <<>>
  /\ current_files = EmptyMap
  /\ added = <<>> /\ changed = <<>> /\ removed = <<>>
  /\ idx = 1 /\ chunks = 0 /\ start = 0
  /\ todo = {}
  /\ failedAt = "none"
  /\ embed_calls = 0
  /\ manifest_gets = 0 /\ manifest_puts = 0
  /\ edits = 0
  /\ runs = 0
  /\ pre = [s3vec |-> EmptyMap, lDir |-> NoDir]
  /\ last = NoLast
  /\ ServeOff
  /\ ct_args \in [text : Texts, chunk_size : 1..MaxChunkSize,
                  overlap : 0..MaxChunkSize]
  /\ ct_ret = <<>>
  /\ ct_pc = "call"
  /\ UnitOff

ChunkText ==
  /\ ct_pc = "call"
  /\ ct_ret' = chunk_text_list(ct_args.text, ct_args.chunk_size, ct_args.overlap)
  /\ ct_pc' = "ret"
  /\ UNCHANGED ct_args
  /\ UNCHANGED <<buildvars, servevars, unitvars>>

ChunkNext == ChunkText

SpecChunk == ChunkInit /\ [][ChunkNext]_vars

\* the count of chunks the run machine uses is the length of the list
ChunkCountAgrees ==
  ( /\ ct_pc = "ret"
    /\ ct_args.chunk_size = CHUNK_SIZE
    /\ ct_args.overlap = CHUNK_OVERLAP )
  => Len(ct_ret) = chunk_text(Len(strip(ct_args.text)))

\* C17: for chunk_text with chunk size L and overlap O, 0 <= O < L: chunk i
\* (from 0) is the window of the stripped text that starts at offset i*(L-O)
\* and has min(L, rest) >= 1 characters, the windows go on to the end of the
\* text, and for consecutive chunks i, i+1 where chunk i+1 has at least O
\* characters the last O characters of chunk i are the first O of chunk i+1.
C17_ChunkWindowsOverlap ==
  (ct_pc = "ret" /\ ct_args.overlap < ct_args.chunk_size) =>
    LET t == strip(ct_args.text)
        L == ct_args.chunk_size
        O == ct_args.overlap
        n == Len(ct_ret)
    IN /\ (n = 0) <=> (t = <<>>)
       /\ n > 0 => (n - 1) * (L - O) < Len(t) /\ n * (L - O) >= Len(t)
       /\ \A i \in 0..(n - 1) :
            LET c == ct_ret[i + 1]
            IN /\ Len(c) = Min(L, Len(t) - i * (L - O))
               /\ Len(c) >= 1
               /\ \A j \in 1..Len(c) : c[j] = t[i * (L - O) + j]
       /\ \A i \in 0..(n - 2) :
            LET c == ct_ret[i + 1]
                d == ct_ret[i + 2]
            IN Len(d) >= O =>
                 /\ Len(c) >= O
                 /\ SubSeq(c, Len(c) - O + 1, Len(c)) = SubSeq(d, 1, O)

\* a text with a leading blank, L = 3, O = 2: three or more chunks, the first
\* two different, the last one shorter than the overlap
C17_Witness ==
  /\ ct_pc = "ret"
  /\ ct_args.chunk_size = 3
  /\ ct_args.overlap = 2
  /\ ct_args.text # <<>> /\ ct_args.text[1] = " "
  /\ Len(ct_ret) >= 3
  /\ ct_ret[1] # ct_ret[2]
  /\ Len(ct_ret[Len(ct_ret)]) < 2

\* ---------------------------------------------------------------------------
\* the run machine: chunk ids, embedding calls, documents without text
IdsOf(recs) == {r.id : r \in recs}
\* the records of a key in the durable index the run started from
OldRecords(k) == RecordsOf(DurableRecords(pre.s3vec), k)

\* C18 as stated: once a changed document has been re-indexed, no record of
\* its replacement chunk set has an id that a record of its deleted chunk set
\* had.
C18_IdNeverReused ==
  (Running /\ ~args.dry_run) =>
    \A j \in 1..Len(changed) :
      ProcessedAt(j) =>
        IdsOf(RecordsOf(CollectionOf(lDir), changed[j]))
          \cap IdsOf(OldRecords(changed[j])) = {}

\* C18, amended: a chunk id is a function of (source key, chunk index) alone
\* and no two records of the index share one. When a changed document has
\* been re-indexed, a replacement record has the id of a deleted record
\* exactly when the two have the same chunk index: the ids of the indexes
\* both sets have are reused, the ids of the other deleted records are in no
\* record of the index any more.
C18_IdReusedByPosition ==
  /\ \A r1 \in CollectionOf(lDir), r2 \in CollectionOf(lDir) :
       r1.id = r2.id => r1 = r2
  /\ \A r1 \in CollectionOf(lDir), r2 \in CollectionOf(lDir) :
       (r1.s3_key = r2.s3_key /\ r1.chunk = r2.chunk) => r1.id = r2.id
  /\ (Running /\ ~args.dry_run) =>
       \A j \in 1..Len(changed) :
         ProcessedAt(j) =>
           LET old == OldRecords(changed[j])
               new == RecordsOf(CollectionOf(lDir), changed[j])
           IN /\ \A o \in old, n \in new : (o.id = n.id) <=> (o.chunk = n.chunk)
              /\ \A o \in old :
                   (\A n \in new : n.chunk # o.chunk) =>
                     o.id \notin IdsOf(CollectionOf(lDir))

\* a changed document with two old records has been replaced by one record
\* of another content that has the id of an old record
C18_Witness ==
  /\ Uploaded
  /\ \E j \in 1..Len(changed) :
       LET old == OldRecords(changed[j])
           new == RecordsOf(CollectionOf(lDir), changed[j])
       IN /\ Cardinality(old) = 2
          /\ Cardinality(new) = 1
          /\ \E o \in old, n \in new : o.id = n.id /\ o.doc # n.doc

\* C19: a run fails in the embedding call of a batch only after more than one
\* call for that batch: the first failure is retried.
C19_EmbedFailureRetried ==
  (pc = "failed" /\ failedAt = "embed") => embed_calls > 1

\* C20: in a non-dry run a document of to_process whose text yields no chunk
\* is skipped: no embedding step runs for it, it has no record in the local
\* index once handled, every document of to_process that has been handled has
\* exactly its new records (also those after the skipped one), and after the
\* upload the durable index has no record of it while the manifest lists it.
C20_EmptyDocumentSkipped ==
  (Running /\ ~args.dry_run) =>
    /\ pc = "embed" => chunks > 0
    /\ (pc = "failed" /\ failedAt = "embed") =>
         source[to_process[idx]].content.textlen # 0
    /\ \A j \in 1..Len(to_process) :
         LET k == to_process[j]
         IN /\ ProcessedAt(j) => RecordsOf(CollectionOf(lDir), k) = NewRecords(k)
            /\ source[k].content.textlen = 0 =>
                 /\ ProcessedAt(j) => RecordsOf(CollectionOf(lDir), k) = {}
                 /\ Uploaded =>
                      /\ \A f \in StoreFiles : RecordsOf(s3vec[f], k) = {}
                      /\ k \in DOMAIN manifest_files(s3vec)

\* a run whose first document to process has no text and whose second has
\* chunks has uploaded the index and written the manifest
C20_Witness ==
  /\ Uploaded
  /\ Len(to_process) = 2
  /\ source[to_process[1]].content.textlen = 0
  /\ RecordsOf(DurableRecords(s3vec), to_process[2]) # {}
  /\ RecordsOf(DurableRecords(s3vec), to_process[2]) = NewRecords(to_process[2])
  /\ DOMAIN manifest_files(s3vec) = Range(to_process)

\* ---------------------------------------------------------------------------
\* the run machine: extraction errors
\* C21: no run ends in failure at the download or text extraction of a
\* document of to_process: such an error is confined to the document and the
\* loop goes on.
C21_ExtractionErrorIsolated ==
  pc = "failed" => failedAt # "index_pdf"

\* ---------------------------------------------------------------------------
\* The answer step of POST /runbooks/ask: _answer builds the context block
\* from the retrieved contexts, lambda_handler builds "sources" from them.
\* A character of the block is the entry number it belongs to and the part of
\* the entry's line it is in; lengths are scaled down.
MaxContexts == 3
MaxCtxText == 3
\* the [:14000] of context_block, scaled
CONTEXT_BUDGET == 8
\* the length of a label "[i] <file> (chunk <n>)", scaled
LabelLen == 2
CtxMetas == {[s3_key |-> "d1.pdf", chunk |-> 0], [s3_key |-> "d1.pdf", chunk |-> 1],
             [s3_key |-> "d2.pdf", chunk |-> 0]}
\* what _retrieve returns per hit: metadata and a non-empty chunk text
CtxEntries == [meta : CtxMetas, textlen : 1..MaxCtxText]
ContextLists ==
  {l \in UNION {[1..n -> CtxEntries] : n \in 0..MaxContexts} :
     \A i \in DOMAIN l, j \in DOMAIN l : i # j => l[i].meta # l[j].meta}

Chars(n, c) == [k \in 1..n |-> c]
\* f"{label}\n{c.get('text','')}\n" of entry i
ctx_line(i, c) ==
  Chars(LabelLen, [entry |-> i, part |-> "label", meta |-> c.meta])
  \o <<[entry |-> i, part |-> "nl", meta |-> c.meta]>>
  \o Chars(c.textlen, [entry |-> i, part |-> "text", meta |-> c.meta])
  \o <<[entry |-> i, part |-> "nl", meta |-> c.meta]>>
\* "\n".join(ctx_lines) of the lines from i on
RECURSIVE join_lines(_, _)
join_lines(cs, i) ==
  IF i > Len(cs) THEN <<>>
  ELSE IF i = Len(cs) THEN ctx_line(i, cs[i])
  ELSE ctx_line(i, cs[i])
       \o <<[entry |-> 0, part |-> "join", meta |-> cs[i].meta]>>
       \o join_lines(cs, i + 1)
\* context_block = "\n".join(ctx_lines)[:14000]
build_context_block(cs) ==
  LET joined == join_lines(cs, 1)
  IN SubSeq(joined, 1, Min(CONTEXT_BUDGET, Len(joined)))
\* "sources": [{... (c.get("meta") or {}) ...} for c in ctx]
build_sources(cs) == [i \in 1..Len(cs) |-> cs[i].meta]

AnswerInit ==
  /\ source = EmptyMap
  /\ s3vec = EmptyMap
  /\ lDir = NoDir
  /\ pc = "idle"
  /\ args = NoArgs
  /\ previous_files = EmptyMap
  /\ pdf_keys = <<>>
  /\ current_files = EmptyMap
  /\ added = <<>> /\ changed = <<>> /\ removed = <<>>
  /\ idx = 1 /\ chunks = 0 /\ start = 0
  /\ todo = {}
  /\ failedAt = "none"
  /\ embed_calls = 0
  /\ manifest_gets = 0 /\ manifest_puts = 0
  /\ edits = 0
  /\ runs = 0
  /\ pre = [s3vec |-> EmptyMap, lDir |-> NoDir]
  /\ last = NoLast
  /\ ServeOff
  /\ ChunkOff
  /\ ask_ctx \in ContextLists
  /\ context_block = <<>>
  /\ ask_sources = <<>>
  /\ ask_pc = "call"
  /\ BatchOff
  /\ RetryOff
  /\ RaceOff

\* ans = _answer(question, ctx); return _response(event, 200, {...})
AnswerAndRespond ==
  /\ ask_pc = "call"
  /\ context_block' = build_context_block(ask_ctx)
  /\ ask_sources' = build_sources(ask_ctx)
  /\ ask_pc' = "ret"
  /\ UNCHANGED ask_ctx
  /\ UNCHANGED <<buildvars, servevars, chunkvars,
                 batchvars, retryvars, racevars>>

AnswerNext == AnswerAndRespond

SpecAnswer == AnswerInit /\ [][AnswerNext]_vars

\* entry i has at least one character of its text in the context block
TextPassed(i) ==
  \E p \in 1..Len(context_block) :
    context_block[p].entry = i /\ context_block[p].part = "text"
\* the entries whose text reached the model, in rank order
PassedEntries == SelectSeq([i \in 1..Len(ask_ctx) |-> i], TextPassed)

\* C22: the sources of a successful answer are the metadata of exactly the
\* retrieved chunks of which some text is in the context block, in rank
\* order, source i being the chunk labelled [i]; a chunk whose text the
\* truncation cut off entirely is not among them.
C22_SourcesAreContextPassed ==
  ask_pc = "ret" =>
    /\ Len(ask_sources) = Len(PassedEntries)
    /\ \A i \in 1..Len(ask_sources) :
         /\ PassedEntries[i] = i
         /\ ask_sources[i] = ask_ctx[i].meta

\* ---------------------------------------------------------------------------
\* the run machine: manifest traffic
\* C23: a non-dry run that detected changes gets the manifest object once,
\* before the listing, and puts it once, after the upload of the index files
\* has completed; at the end of a successful run the files map of the durable
\* manifest is the key-to-metadata map of the run's listing and no more.
C23_ManifestReadOnceWrittenOnce ==
  (Running /\ ~args.dry_run) =>
    /\ pc \notin {"load_manifest", "failed"} => manifest_gets = 1
    /\ pc \notin {"done", "failed"} => manifest_puts = 0
    /\ Uploaded =>
         /\ manifest_gets = 1
         /\ manifest_puts = 1
         /\ manifest_files(s3vec) = current_files
         /\ current_files = build_current_state(source, pdf_keys)

\* ---------------------------------------------------------------------------
\* the run machine: documents that disappeared from the source
\* the keys the durable manifest listed at run start that the source lacks
GoneKeys == (DOMAIN manifest_files(pre.s3vec)) \ (DOMAIN source)
\* the durable index and manifest hold nothing of key k
Purged(k) ==
  /\ \A f \in StoreFiles \cap DOMAIN s3vec : RecordsOf(s3vec[f], k) = {}
  /\ k \notin DOMAIN manifest_files(s3vec)

\* C24: a non-dry run without document cap that ends has removed from the
\* durable index and manifest every key the manifest listed and the source
\* lacks; and when there are such keys, the run does not end at the listing
\* because the source holds no document any more.
C24_GoneSourceIsPurged ==
  (Running /\ ~args.dry_run /\ args.max_pdfs = 0) =>
    /\ pc = "done" => \A k \in GoneKeys : Purged(k)
    /\ (pc = "failed" /\ failedAt = "list" /\ GoneKeys # {}) =>
         DOMAIN source # {}

\* ---------------------------------------------------------------------------
\* The batch loop of chroma_index_pdf (build_chroma.py:362-378) for one
\* document with n >= 1 chunks and a batch size B >= 1. The loop of
\* rag_ingest_to_chroma.py:233-242 slices the same way.
\*  - embeddings.create returns one embedding per input, in input order, or
\*    raises; an embedding is named by the call, the position and the input.
MaxChunks == 4
MaxBatch == 3
BatchKey == "d1.pdf"
ChunkLists == UNION {[1..n -> {"x", "y"}] : n \in 1..MaxChunks}

\* emb.data[i].embedding of the call-th call
Embedding(call, i, text) == [call |-> call, pos |-> i, of |-> text]
\* the chunk index of position i of a batch, with the batch start left out
chunk_index_local(st, i) == i
\* start + i for i in range(len(batch))
chunk_index_of(st, i) == st + i
\* ids, documents, metadatas, embeddings of one upsert
upsert_records(s3_key, st, batch, vectors) ==
  {[id |-> stable_chunk_id(s3_key, chunk_index_of(st, i)),
    s3_key |-> s3_key,
    chunk |-> chunk_index_of(st, i),
    doc |-> batch[i + 1],
    vector |-> vectors[i + 1]] : i \in 0..(Len(batch) - 1)}
\* batch = chunks[start : start + EMBED_BATCH_SIZE]
batch_of(cs, st, size) == slice(cs, st, st + size)

BatchInit ==
  /\ source = EmptyMap
  /\ s3vec = EmptyMap
  /\ lDir = NoDir
  /\ pc = "idle"
  /\ args = NoArgs
  /\ previous_files = EmptyMap
  /\ pdf_keys = <<>>
  /\ current_files = EmptyMap
  /\ added = <<>> /\ changed = <<>> /\ removed = <<>>
  /\ idx = 1 /\ chunks = 0 /\ start = 0
  /\ todo = {}
  /\ failedAt = "none"
  /\ embed_calls = 0
  /\ manifest_gets = 0 /\ manifest_puts = 0
  /\ edits = 0
  /\ runs = 0
  /\ pre = [s3vec |-> EmptyMap, lDir |-> NoDir]
  /\ last = NoLast
  /\ ServeOff
  /\ ChunkOff
  /\ AnswerOff
  /\ b_chunks \in ChunkLists
  /\ b_size \in 1..MaxBatch
  /\ b_start = 0
  /\ b_vectors = <<>>
  /\ b_col = {}
  /\ b_calls = <<>>
  /\ b_pc = "loop"
  /\ RetryOff
  /\ RaceOff

\* emb = openai_client.embeddings.create(model=EMBED_MODEL, input=batch);
\* vectors = [d.embedding for d in emb.data]
BatchEmbed ==
  /\ b_pc = "loop"
  /\ LET batch == batch_of(b_chunks, b_start, b_size)
         call == Len(b_calls) + 1
     IN /\ b_calls' = Append(b_calls, [from |-> b_start, len |-> Len(batch)])
        /\ b_vectors' = [i \in 1..Len(batch) |-> Embedding(call, i, batch[i])]
  /\ b_pc' = "embedded"
  /\ UNCHANGED <<b_chunks, b_size, b_start, b_col>>
  /\ UNCHANGED <<buildvars, servevars, chunkvars,
                 answervars, retryvars, racevars>>

\* embeddings.create raises: the exception leaves chroma_index_pdf
BatchEmbedFail ==
  /\ b_pc = "loop"
  /\ LET batch == batch_of(b_chunks, b_start, b_size)
     IN b_calls' = Append(b_calls, [from |-> b_start, len |-> Len(batch)])
  /\ b_pc' = "failed"
  /\ UNCHANGED <<b_chunks, b_size, b_start, b_vectors, b_col>>
  /\ UNCHANGED <<buildvars, servevars, chunkvars,
                 answervars, retryvars, racevars>>

\* ids, metas, collection.upsert(...); the next start of the range
BatchUpsert ==
  /\ b_pc = "embedded"
  /\ LET batch == batch_of(b_chunks, b_start, b_size)
     IN b_col' = chroma_upsert(b_col,
                   upsert_records(BatchKey, b_start, batch, b_vectors))
  /\ b_start' = b_start + b_size
  /\ b_pc' = IF b_start' < Len(b_chunks) THEN "loop" ELSE "done"
  /\ UNCHANGED <<b_chunks, b_size, b_vectors, b_calls>>
  /\ UNCHANGED <<buildvars, servevars, chunkvars,
                 answervars, retryvars, racevars>>

BatchNext == BatchEmbed \/ BatchEmbedFail \/ BatchUpsert

SpecBatch == BatchInit /\ [][BatchNext]_vars

\* the number of batches that have been upserted
Upserted == IF b_pc = "loop" \/ b_pc = "done" THEN Len(b_calls)
            ELSE Len(b_calls) - 1

\* C25: the c-th embedding call is for the slice [(c-1)B, cB) of the chunk
\* list, of min(B, n - (c-1)B) >= 1 chunks; a call is issued only when every
\* earlier batch has been upserted; the collection holds records of the
\* upserted batches only, so none of a batch whose call has not returned or
\* has failed; at the end every chunk index has exactly one record; and the
\* record of chunk j has the id of (key, j), chunk j, the text of chunk j and
\* the embedding at position j mod B of call j div B + 1, made from that text.
C25_BatchesInOrder ==
  LET n == Len(b_chunks)
      B == b_size
  IN /\ \A c \in 1..Len(b_calls) :
          /\ b_calls[c].from = (c - 1) * B
          /\ b_calls[c].len = Min(B, n - (c - 1) * B)
          /\ b_calls[c].len \in 1..B
     /\ b_start = Upserted * B
     /\ b_pc = "embedded" => Len(b_vectors) = b_calls[Len(b_calls)].len
     /\ {r.chunk : r \in b_col} = 0..(Min(b_start, n) - 1)
     /\ Cardinality(b_col) = Min(b_start, n)
     /\ b_pc = "done" =>
          /\ Cardinality(b_col) = n
          /\ \A j \in 0..(n - 1) :
               Cardinality({c \in 1..Len(b_calls) :
                              /\ b_calls[c].from <= j
                              /\ j < b_calls[c].from + b_calls[c].len}) = 1
     /\ \A r \in b_col :
          /\ r.id = stable_chunk_id(BatchKey, r.chunk)
          /\ r.s3_key = BatchKey
          /\ r.doc = b_chunks[r.chunk + 1]
          /\ r.vector = Embedding((r.chunk \div B) + 1, (r.chunk % B) + 1,
                                  b_chunks[r.chunk + 1])

\* four chunks in batches of three: the second call, of one chunk, has
\* returned and its batch is in the collection with the first
C25_Witness ==
  /\ b_pc = "done"
  /\ Len(b_chunks) = 4
  /\ b_size = 3
  /\ Len(b_calls) = 2
  /\ b_chunks[1] # b_chunks[4]
  /\ \E r \in b_col : r.chunk = 3 /\ r.vector.call = 2 /\ r.vector.pos = 1

\* a call failed after a batch had been upserted
C25_WitnessFailed ==
  /\ b_pc = "failed"
  /\ Len(b_calls) = 2
  /\ Cardinality(b_col) = 2

\* ---------------------------------------------------------------------------
\* embed_with_retry (rag_ingest_to_chroma.py:129-140): every call of
\* embeddings.create returns or raises an exception the handler catches.
MaxRetries == 7
\* the delay cap, 20.0 seconds
DelayCap == 20
ExcKinds == {"timeout", "rate_limit", "server_error"}

\* a doubling without the cap
next_delay_uncapped(d) == d * 2
\* delay = min(delay * 2, 20.0)
next_delay(d) == Min(d * 2, DelayCap)

RetryInit ==
  /\ source = EmptyMap
  /\ s3vec = EmptyMap
  /\ lDir = NoDir
  /\ pc = "idle"
  /\ args = NoArgs
  /\ previous_files = EmptyMap
  /\ pdf_keys = <<>>
  /\ current_files = EmptyMap
  /\ added = <<>> /\ changed = <<>> /\ removed = <<>>
  /\ idx = 1 /\ chunks = 0 /\ start = 0
  /\ todo = {}
  /\ failedAt = "none"
  /\ embed_calls = 0
  /\ manifest_gets = 0 /\ manifest_puts = 0
  /\ edits = 0
  /\ runs = 0
  /\ pre = [s3vec |-> EmptyMap, lDir |-> NoDir]
  /\ last = NoLast
  /\ ServeOff
  /\ ChunkOff
  /\ AnswerOff
  /\ BatchOff
  /\ max_retries \in 1..MaxRetries
  /\ attempt = 1
  /\ delay = 1
  /\ exc = "none"
  /\ slept = <<>>
  /\ ewr_calls = 0
  /\ ewr_pc = "try"
  /\ RaceOff

\* resp = client.embeddings.create(...); return [e.embedding for e in resp.data]
RetryCallReturns ==
  /\ ewr_pc = "try"
  /\ ewr_calls' = ewr_calls + 1
  /\ ewr_pc' = "returned"
  /\ UNCHANGED <<max_retries, attempt, delay, exc, slept>>
  /\ UNCHANGED <<buildvars, servevars, chunkvars,
                 answervars, batchvars, racevars>>

\* the call raises: except Exception; raise on the last attempt, otherwise
\* time.sleep(delay), the next delay, the next attempt
RetryCallRaises(kind) ==
  /\ ewr_pc = "try"
  /\ ewr_calls' = ewr_calls + 1
  /\ exc' = kind
  /\ IF attempt = max_retries
     THEN /\ ewr_pc' = "raised"
          /\ UNCHANGED <<attempt, delay, slept>>
     ELSE /\ slept' = Append(slept, delay)
          /\ delay' = next_delay(delay)
          /\ attempt' = attempt + 1
          /\ ewr_pc' = "try"
  /\ UNCHANGED max_retries
  /\ UNCHANGED <<buildvars, servevars, chunkvars,
                 answervars, batchvars, racevars>>

RetryNext ==
  \/ RetryCallReturns
  \/ \E kind \in ExcKinds : RetryCallRaises(kind)

SpecRetry == RetryInit /\ [][RetryNext]_vars

\* C26: embed_with_retry with max_retries = n >= 1 makes at most n calls;
\* the k-th sleep, between failed attempt k and attempt k+1, lasts
\* min(2^(k-1), 20) seconds; it returns at the first call that succeeds,
\* calls after no success, and has then slept once per failed call; and it
\* raises only after n failed calls and n - 1 sleeps, none after the last
\* failure.
C26_RetryBackoff ==
  /\ ewr_calls <= max_retries
  /\ attempt \in 1..max_retries
  /\ ewr_calls = IF ewr_pc = "try" THEN attempt - 1 ELSE attempt
  /\ Len(slept) = attempt - 1
  /\ \A k \in 1..Len(slept) : slept[k] = Min(2^(k - 1), 20)
  /\ ewr_pc = "try" => delay = Min(2^(attempt - 1), 20)
  /\ ewr_pc = "returned" => Len(slept) = ewr_calls - 1
  /\ ewr_pc = "raised" =>
       /\ ewr_calls = max_retries
       /\ Len(slept) = max_retries - 1
       /\ exc \in ExcKinds
  /\ (max_retries = 6 /\ ewr_pc = "raised") => slept = <<1, 2, 4, 8, 16>>

\* the sixth sleep of a call with seven attempts is capped at 20 seconds, and
\* the seventh call returns
C26_Witness ==
  /\ max_retries = 7
  /\ ewr_pc = "returned"
  /\ ewr_calls = 7
  /\ slept = <<1, 2, 4, 8, 16, 20>>

\* the default, six failures in a row: five sleeps, then the raise
C26_WitnessRaised ==
  /\ max_retries = 6
  /\ ewr_pc = "raised"
  /\ ewr_calls = 6
  /\ slept = <<1, 2, 4, 8, 16>>

\* ---------------------------------------------------------------------------
\* Two processes run main() without --dry-run, --rebuild and --max-pdfs
\* against the same bucket, each with a LOCAL_CHROMA_DIR of its own.
\*  - Listing, HEADs and diff of a run read the runbooks prefix at one moment.
\*  - The work of a run on its local store (open, removals, re-indexing) is
\*    one step: no other process sees the local store.
\*  - A document a run is working on is neither replaced nor deleted before
\*    the run ends; new documents arrive at any time.
\*  - No S3, Chroma or OpenAI call fails.
MaxRaceRuns == 3
MaxRaceEdits == 3
RaceContents == {c \in Contents : c.textlen > 0}

\* every variable of the single-run machine but the two prefixes
runstate == <<lDir, pc, args, previous_files, pdf_keys, current_files, added,
              changed, removed, idx, chunks, start, todo, failedAt,
              embed_calls, manifest_gets, manifest_puts, runs, pre, last>>

AllIdle == \A p \in Procs : rpc[p] = "idle"
\* process p has its download behind it and has put no file yet
Loaded(p) ==
  \/ rpc[p] = "open"
  \/ rpc[p] = "upload_files" /\ rtodo[p] = DOMAIN rdir[p].files

\* for k in removed: chroma_delete_pdf(collection, k, False)
RECURSIVE remove_all(_, _)
remove_all(col, keys) ==
  IF keys = <<>> THEN col
  ELSE remove_all(chroma_delete_pdf(col, Head(keys), FALSE), Tail(keys))
\* a loop over to_process that indexes nothing
index_none(col, keys, src) == col
\* for k in to_process: chroma_delete_pdf, then chroma_index_pdf
RECURSIVE index_all(_, _, _)
index_all(col, keys, src) ==
  IF keys = <<>> THEN col
  ELSE LET k == Head(keys)
           n == chunk_text(src[k].content.textlen)
           recs == {ChunkRecord(k, src[k].content.etag, j) : j \in 0..(n - 1)}
       IN index_all(chroma_upsert(chroma_delete_pdf(col, k, FALSE), recs),
                    Tail(keys), src)
\* main from open_chroma to the end of the loops, on the local directory
apply_diff(dir, d, src) ==
  LET opened == open_chroma(dir)
      col == index_all(remove_all(CollectionOf(opened), d.removed),
                       d.changed \o d.added, src)
  IN Persist(opened, col)

RaceInit ==
  /\ source = EmptyMap
  /\ s3vec = EmptyMap
  /\ lDir = NoDir
  /\ pc = "idle"
  /\ args = NoArgs
  /\ previous_files = EmptyMap
  /\ pdf_keys = <<>>
  /\ current_files = EmptyMap
  /\ added = <<>> /\ changed = <<>> /\ removed = <<>>
  /\ idx = 1 /\ chunks = 0 /\ start = 0
  /\ todo = {}
  /\ failedAt = "none"
  /\ embed_calls = 0
  /\ manifest_gets = 0 /\ manifest_puts = 0
  /\ edits = 0
  /\ runs = 0
  /\ pre = [s3vec |-> EmptyMap, lDir |-> NoDir]
  /\ last = NoLast
  /\ ServeOff
  /\ ChunkOff
  /\ AnswerOff
  /\ BatchOff
  /\ RetryOff
  /\ serialized \in BOOLEAN
  /\ rpc = [p \in Procs |-> "idle"]
  /\ rprev = [p \in Procs |-> EmptyMap]
  /\ rcur = [p \in Procs |-> EmptyMap]
  /\ rdir = [p \in Procs |-> NoDir]
  /\ rtodo = [p \in Procs |-> {}]
  /\ rruns = 0
  /\ writer = [f \in VecFiles |-> 0]
  /\ overlapped = FALSE

\* a document is uploaded to the runbooks prefix
RacePut(k, c) ==
  /\ edits < MaxRaceEdits
  /\ k \in DOMAIN source => (source[k].content # c /\ AllIdle)
  /\ source' = Put(source, k, [content |-> c, lm |-> 1])
  /\ edits' = edits + 1
  /\ UNCHANGED <<s3vec, runstate, racevars>>
  /\ UNCHANGED <<servevars, chunkvars, answervars, batchvars, retryvars>>

\* a document is deleted from the runbooks prefix
RaceDelete(k) ==
  /\ edits < MaxRaceEdits
  /\ k \in DOMAIN source
  /\ AllIdle
  /\ source' = Remove(source, k)
  /\ edits' = edits + 1
  /\ UNCHANGED <<s3vec, runstate, racevars>>
  /\ UNCHANGED <<servevars, chunkvars, answervars, batchvars, retryvars>>

\* process p starts main()
RaceStart(p) ==
  /\ rpc[p] = "idle"
  /\ rruns < MaxRaceRuns
  /\ serialized => AllIdle
  /\ rruns' = rruns + 1
  /\ rpc' = [rpc EXCEPT ![p] = "load_manifest"]
  /\ UNCHANGED <<source, s3vec, edits, runstate>>
  /\ UNCHANGED <<serialized, rprev, rcur, rdir, rtodo, writer, overlapped>>
  /\ UNCHANGED <<servevars, chunkvars, answervars, batchvars, retryvars>>

\* manifest = s3_get_json(...); previous_files = manifest.get("files", {})
RaceLoadManifest(p) ==
  /\ rpc[p] = "load_manifest"
  /\ rprev' = [rprev EXCEPT ![p] = manifest_files(s3vec)]
  /\ rpc' = [rpc EXCEPT ![p] = "list"]
  /\ UNCHANGED <<source, s3vec, edits, runstate>>
  /\ UNCHANGED <<serialized, rcur, rdir, rtodo, rruns, writer, overlapped>>
  /\ UNCHANGED <<servevars, chunkvars, answervars, batchvars, retryvars>>

\* s3_list_pdfs (SystemExit when empty), build_current_state, compute_diff
\* (return when nothing changed)
RaceListDiff(p) ==
  /\ rpc[p] = "list"
  /\ LET keys == s3_list_pdfs(source)
         cur == build_current_state(source, keys)
         d == compute_diff(rprev[p], cur)
     IN IF keys = <<>>
        THEN rcur' = rcur /\ rpc' = [rpc EXCEPT ![p] = "idle"]
        ELSE /\ rcur' = [rcur EXCEPT ![p] = cur]
             /\ rpc' = [rpc EXCEPT ![p] =
                          IF d.added \o d.changed \o d.removed = <<>>
                          THEN "idle" ELSE "prepare"]
  /\ UNCHANGED <<source, s3vec, edits, runstate>>
  /\ UNCHANGED <<serialized, rprev, rdir, rtodo, rruns, writer, overlapped>>
  /\ UNCHANGED <<servevars, chunkvars, answervars, batchvars, retryvars>>

\* s3_download_prefix: list the vectors prefix, clear the directory
RacePrepare(p) ==
  /\ rpc[p] = "prepare"
  /\ LET r == prepare_store(s3vec, rdir[p], NoArgs)
     IN /\ rdir' = [rdir EXCEPT ![p] = r.dir]
        /\ rtodo' = [rtodo EXCEPT ![p] = r.todo]
        /\ rpc' = [rpc EXCEPT ![p] = r.pc]
        /\ overlapped' = (overlapped \/
             (r.pc = "open" /\ \E q \in Procs \ {p} : Loaded(q)))
  /\ UNCHANGED <<source, s3vec, edits, runstate>>
  /\ UNCHANGED <<serialized, rprev, rcur, rruns, writer>>
  /\ UNCHANGED <<servevars, chunkvars, answervars, batchvars, retryvars>>

\* one s3.download_file of s3_download_prefix
RaceDownloadFile(p) ==
  /\ rpc[p] = "download_files"
  /\ LET f == first_todo(rtodo[p])
         left == rtodo[p] \ {f}
     IN /\ rdir' = [rdir EXCEPT ![p].files = Put(rdir[p].files, f, s3vec[f])]
        /\ rtodo' = [rtodo EXCEPT ![p] = left]
        /\ rpc' = [rpc EXCEPT ![p] =
                     IF left = {} THEN "open" ELSE "download_files"]
        /\ overlapped' = (overlapped \/
             (left = {} /\ \E q \in Procs \ {p} : Loaded(q)))
  /\ UNCHANGED <<source, s3vec, edits, runstate>>
  /\ UNCHANGED <<serialized, rprev, rcur, rruns, writer>>
  /\ UNCHANGED <<servevars, chunkvars, answervars, batchvars, retryvars>>

\* open_chroma, the removal loop, the processing loop; s3_upload_dir begins
RaceMutate(p) ==
  /\ rpc[p] = "open"
  /\ LET dir == apply_diff(rdir[p], compute_diff(rprev[p], rcur[p]), source)
     IN /\ rdir' = [rdir EXCEPT ![p] = dir]
        /\ rtodo' = [rtodo EXCEPT ![p] = upload_step(dir, FALSE).todo]
  /\ rpc' = [rpc EXCEPT ![p] = "upload_files"]
  /\ UNCHANGED <<source, s3vec, edits, runstate>>
  /\ UNCHANGED <<serialized, rprev, rcur, rruns, writer, overlapped>>
  /\ UNCHANGED <<servevars, chunkvars, answervars, batchvars, retryvars>>

\* one s3.upload_file of s3_upload_dir
RaceUploadFile(p, f) ==
  /\ rpc[p] = "upload_files"
  /\ f \in rtodo[p]
  /\ s3vec' = Put(s3vec, f, rdir[p].files[f])
  /\ writer' = [writer EXCEPT ![f] = p]
  /\ rtodo' = [rtodo EXCEPT ![p] = rtodo[p] \ {f}]
  /\ rpc' = [rpc EXCEPT ![p] =
               IF rtodo[p] = {f} THEN "put_manifest" ELSE "upload_files"]
  /\ UNCHANGED <<source, edits, runstate>>
  /\ UNCHANGED <<serialized, rprev, rcur, rdir, rruns, overlapped>>
  /\ UNCHANGED <<servevars, chunkvars, answervars, batchvars, retryvars>>

\* s3_put_json(S3_BUCKET, MANIFEST_KEY, new_manifest); main returns
RacePutManifest(p) ==
  /\ rpc[p] = "put_manifest"
  /\ s3vec' = Put(s3vec, MANIFEST_KEY, new_manifest(rcur[p]))
  /\ writer' = [writer EXCEPT ![MANIFEST_KEY] = p]
  /\ rpc' = [rpc EXCEPT ![p] = "idle"]
  /\ UNCHANGED <<source, edits, runstate>>
  /\ UNCHANGED <<serialized, rprev, rcur, rdir, rtodo, rruns, overlapped>>
  /\ UNCHANGED <<servevars, chunkvars, answervars, batchvars, retryvars>>

\* the next step of a run in progress
RaceStep(p) ==
  \/ RaceLoadManifest(p)
  \/ RaceListDiff(p)
  \/ RacePrepare(p)
  \/ RaceDownloadFile(p)
  \/ RaceMutate(p)
  \/ \E f \in VecFiles : RaceUploadFile(p, f)
  \/ RacePutManifest(p)

RaceNext ==
  \/ \E k \in Keys, c \in RaceContents : RacePut(k, c)
  \/ \E k \in Keys : RaceDelete(k)
  \/ \E p \in Procs : RaceStart(p)
  \/ \E p \in Procs : RaceLoadManifest(p)
  \/ \E p \in Procs : RaceListDiff(p)
  \/ \E p \in Procs : RacePrepare(p)
  \/ \E p \in Procs : RaceDownloadFile(p)
  \/ \E p \in Procs : RaceMutate(p)
  \/ \E p \in Procs, f \in VecFiles : RaceUploadFile(p, f)
  \/ \E p \in Procs : RacePutManifest(p)

SpecRace == RaceInit /\ [][RaceNext]_vars

ContentOf(e) == CHOOSE c \in Contents : c.etag = e
\* the chunk records of a document as the manifest lists it
ListedRecords(k, meta) ==
  {ChunkRecord(k, meta.etag, j) :
     j \in 0..(chunk_text(ContentOf(meta.etag).textlen) - 1)}
\* the manifest of the vectors prefix lists a document of which a chunk is
\* not in the index of the vectors prefix
ChunksMissing(vec) ==
  \E k \in DOMAIN manifest_files(vec) :
    ~(ListedRecords(k, manifest_files(vec)[k]) \subseteq DurableRecords(vec))

C28_RebuildReindexesAll ==
  (Uploaded /\ args.rebuild) =>
    \A k \in DOMAIN manifest_files(s3vec) :
      RecordsOf(DurableRecords(s3vec), k) = NewRecords(k)

\* the documents of the runbooks prefix a capped listing leaves out
BeyondCap == (DOMAIN source) \ Range(pdf_keys)

\* C29: when a run with --max-pdfs N > 0 (without --dry-run and --rebuild)
\* has uploaded, every document that is in the runbooks prefix but not among
\* the first N listed keys has in the vectors prefix the index records and
\* the manifest entry it had when the run started.
C29_CapOnlyLimitsProcessing ==
  (Uploaded /\ args.max_pdfs > 0 /\ ~args.rebuild) =>
    \A k \in BeyondCap :
      /\ RecordsOf(DurableRecords(pre.s3vec), k)
           \subseteq RecordsOf(DurableRecords(s3vec), k)
      /\ k \in DOMAIN manifest_files(pre.s3vec) =>
           k \in DOMAIN manifest_files(s3vec)

\* C30: when s3_download_prefix has returned in a run without --dry-run and
\* --rebuild, the records of the local index are the records of the index
\* of the vectors prefix: none when the prefix holds no object.
C30_DownloadedEqualsDurable ==
  (pc = "open" /\ ~args.dry_run /\ ~args.rebuild) =>
    CollectionOf(lDir) = DurableRecords(s3vec)
====
